---- MODULE Spec2Model ----
(***************************************************************************)
(* A model of the codeprism evaluation harness (src/eval):                 *)
(*   evaluate.py            deterministic scoring (compute_deterministic)  *)
(*   generate_benchmarks.py compute_accuracy, token estimates              *)
(*   generate_dataset.py    _file_fragments, select_flows,                 *)
(*                          generate_test_case, main                       *)
(*                                                                         *)
(* Conventions.                                                            *)
(*  - A Python str is a sequence of one-character strings, so that         *)
(*    lower(), substring tests, joins and regular expressions are          *)
(*    computed character by character.  The character U+2194 (the          *)
(*    cross-service separator) is the single element Arrow.                *)
(*  - A JSON value that may have several shapes is a record                *)
(*    [t, s, l]: t is its shape ("none", "missing", "str", "list",         *)
(*    "int", "error"), s its characters when it is a string (or a          *)
(*    number's digits), l its items when it is a list.                     *)
(*  - A rate is the integer number of thousandths that round(x, 3)         *)
(*    returns: 0.5 is 500, 0.333 is 333, 1.0 is 1000.                      *)
(*  - A function result is a record with a field status: "pending"         *)
(*    before the call, "returned", or "raised" when the call ends in an    *)
(*    uncaught exception.                                                  *)
(***************************************************************************)
EXTENDS Integers, Sequences, FiniteSets, TLC

VARIABLES
    test_case,   \* scoring: the test case handed to the scorers
    results,     \* scoring: the batch of cards returned by the search
    det,         \* scoring: result of compute_deterministic
    acc,         \* scoring: result of compute_accuracy
    frags,       \* scoring: result of _file_fragments
    naive,       \* scoring: result of estimate_naive_tokens
    spc,         \* scoring: position of the scoring run
    flows,       \* sampling: the catalogue handed to select_flows
    sample,      \* sampling: the requested number of test cases
    selected,    \* sampling: result of select_flows
    test_cases,  \* generation: the test cases built so far by main
    gpc,         \* sampling/generation: position of the generator
    dataset,     \* evaluate.py: the test cases of the golden dataset file
    case_id,     \* evaluate.py: args.case_id ("" when not given)
    ragas,       \* evaluate.py: args.ragas
    verbose,     \* evaluate.py: args.verbose
    environ,     \* evaluate.py: which judge credentials are set
    eval_cases,  \* evaluate.py: test_cases of main, after the --id filter
    all_results, \* evaluate.py: results of the searches, by test case id
    search_calls,\* evaluate.py: outcomes of the search calls issued so far
    search_results, \* evaluate.py: the results each search call returned
    det_by_id,   \* evaluate.py: deterministic metrics, by test case id
    init_calls,  \* evaluate.py: judge backends whose client was initialized
    init_failed, \* evaluate.py: judge backends whose initialization raised
    ragas_llm,   \* evaluate.py: the selected judge ("none" when none)
    ragas_out,   \* evaluate.py: what run_ragas returned
    results_file,\* evaluate.py: the results file written by main
    epc,         \* evaluate.py: position of main
    golden_exists, \* evaluate_deepeval.py: the golden dataset file exists
    golden,      \* evaluate_deepeval.py: the entries of the golden dataset
    deep_ids,    \* evaluate_deepeval.py: args.ids (empty when not given)
    no_history,  \* evaluate_deepeval.py: args.no_history
    deep_calls,  \* evaluate_deepeval.py: outcomes of the search calls so far
    deep_idx,    \* evaluate_deepeval.py: entries build_test_cases has passed
    deep_cases,  \* evaluate_deepeval.py: the cases built by build_test_cases
    deep_results,\* evaluate_deepeval.py: the case results of run_metrics
    deep_file,   \* evaluate_deepeval.py: the results file written by main
    history_file,\* evaluate_deepeval.py: the history file
    dpc,         \* evaluate_deepeval.py: position of main
    deep_run,    \* evaluate_deepeval.py: the number of the run under way
    bench_dataset, \* generate_benchmarks.py: the test cases of the dataset file
    bench_project, \* generate_benchmarks.py: args.project
    bench_append,  \* generate_benchmarks.py: args.append
    bench_file,    \* generate_benchmarks.py: the benchmark file (its projects)
    existing,      \* generate_benchmarks.py: what main read from the file
    bench_calls,   \* generate_benchmarks.py: what the search calls returned
    bench_cases,   \* generate_benchmarks.py: cases of run_benchmarks
    latencies,     \* generate_benchmarks.py: latencies of run_benchmarks
    cache_hits,    \* generate_benchmarks.py: cache_hits of run_benchmarks
    bench_stats,   \* generate_benchmarks.py: result of build_project_stats
    bpc,           \* generate_benchmarks.py: position of main
    delays         \* the three runners: delays[i] tells whether time.sleep
                   \* followed search call i of the running program

scoreVars == <<test_case, results, det, acc, frags, naive, spc>>
genVars == <<flows, sample, selected, test_cases, gpc>>
evalVars == <<dataset, case_id, ragas, verbose, environ, eval_cases, all_results,
              search_calls, search_results, det_by_id, init_calls, init_failed, ragas_llm,
              ragas_out, results_file, epc>>
deepVars == <<golden_exists, golden, deep_ids, no_history, deep_calls, deep_idx,
              deep_cases, deep_results, deep_file, history_file, dpc, deep_run>>
benchVars == <<bench_dataset, bench_project, bench_append, bench_file, existing, bench_calls,
               bench_cases, latencies, cache_hits, bench_stats, bpc>>
runnerVars == <<evalVars, deepVars, benchVars, delays>>
vars == <<scoreVars, genVars, runnerVars>>

(***************************************************************************)
(* Bounds of the model.                                                    *)
(***************************************************************************)
MaxExpected == 2      \* expected flows of a test case, general family
MaxFragments == 2     \* expected file fragments of a test case
MaxResults == 2       \* cards of a result batch, general family
MaxFlowExpected == 3  \* expected flows of a test case, flow family
MaxFlowResults == 3   \* cards of a result batch, flow family
MaxCross == 3         \* cross-service flows of a sampled catalogue
MaxRegular == 7       \* regular flows of a sampled catalogue
MaxSample == 8        \* requested sample size, sampling specification
MaxFlows == 4         \* flows of a catalogue, generator specification
MaxGenSample == 3     \* requested sample size, generator specification

(***************************************************************************)
(* Python built-ins.                                                       *)
(***************************************************************************)
Range(s) == {s[i] : i \in 1..Len(s)}

Min(a, b) == IF a <= b THEN a ELSE b

Max(a, b) == IF a >= b THEN a ELSE b

Arrow == "U+2194"

\* the two characters that cannot be written inside a string of this module
Backspace == "U+0008"

Backtick == "U+0060"

\* the white space of Unicode outside printable ASCII, named by code point
VerticalTab == "U+000B"

\* code points 28 to 31: the file, group, record and unit separators
Separators == <<"U+001C", "U+001D", "U+001E", "U+001F">>

NextLine == "U+0085"

NoBreakSpace == "U+00A0"

OghamSpace == "U+1680"

\* code points 8192 to 8202: en quad to hair space
TypeSpaces ==
    <<"U+2000", "U+2001", "U+2002", "U+2003", "U+2004", "U+2005", "U+2006",
      "U+2007", "U+2008", "U+2009", "U+200A">>

\* code points 8232 and 8233
LineSeparators == <<"U+2028", "U+2029">>

NarrowSpace == "U+202F"

MathSpace == "U+205F"

IdeographicSpace == "U+3000"

\* The characters of the model with their code points: the ASCII control
\* characters that text files and JSON escapes use, printable ASCII, the
\* letters of Latin-1, the arrow of the cross-service flow names, and every
\* character that str.strip() takes for white space.
Digits == <<"0", "1", "2", "3", "4", "5", "6", "7", "8", "9">>

UpperCase ==
    <<"A", "B", "C", "D", "E", "F", "G", "H", "I", "J", "K", "L", "M",
      "N", "O", "P", "Q", "R", "S", "T", "U", "V", "W", "X", "Y", "Z">>

LowerCase ==
    <<"a", "b", "c", "d", "e", "f", "g", "h", "i", "j", "k", "l", "m",
      "n", "o", "p", "q", "r", "s", "t", "u", "v", "w", "x", "y", "z">>

\* code points 32 to 47
AsciiLow ==
    <<" ", "!", "\"", "#", "$", "%", "&", "'", "(", ")", "*", "+", ",", "-", ".", "/">>

\* code points 58 to 64
AsciiMid == <<":", ";", "<", "=", ">", "?", "@">>

\* code points 91 to 96
AsciiBrackets == <<"[", "\\", "]", "^", "_", Backtick>>

\* code points 123 to 126
AsciiHigh == <<"{", "|", "}", "~">>

\* code points 192 to 222
Latin1Upper ==
    <<"À", "Á", "Â", "Ã", "Ä", "Å", "Æ", "Ç", "È", "É", "Ê", "Ë", "Ì", "Í", "Î", "Ï",
      "Ð", "Ñ", "Ò", "Ó", "Ô", "Õ", "Ö", "×", "Ø", "Ù", "Ú", "Û", "Ü", "Ý", "Þ">>

\* code points 223 to 255
Latin1Lower ==
    <<"ß", "à", "á", "â", "ã", "ä", "å", "æ", "ç", "è", "é", "ê", "ë", "ì", "í", "î", "ï",
      "ð", "ñ", "ò", "ó", "ô", "õ", "ö", "÷", "ø", "ù", "ú", "û", "ü", "ý", "þ", "ÿ">>

IndexOf(seq, c) == CHOOSE i \in 1..Len(seq) : seq[i] = c

\* runs of characters with consecutive code points
CharBlocks ==
    << [first |-> 8, chars |-> <<Backspace, "\t", "\n", VerticalTab, "\f", "\r">>],
       [first |-> 28, chars |-> Separators \o AsciiLow \o Digits \o AsciiMid \o UpperCase
                                \o AsciiBrackets \o LowerCase \o AsciiHigh],
       [first |-> 133, chars |-> <<NextLine>>],
       [first |-> 160, chars |-> <<NoBreakSpace>>],
       [first |-> 192, chars |-> Latin1Upper \o Latin1Lower],
       [first |-> 5760, chars |-> <<OghamSpace>>],
       [first |-> 8192, chars |-> TypeSpaces],
       [first |-> 8232, chars |-> LineSeparators],
       [first |-> 8239, chars |-> <<NarrowSpace>>],
       [first |-> 8287, chars |-> <<MathSpace>>],
       [first |-> 8596, chars |-> <<Arrow>>],
       [first |-> 12288, chars |-> <<IdeographicSpace>>] >>

\* the code point of every character of the model
CodePoint ==
    LET Block(chars, first) == [c \in Range(chars) |-> first + IndexOf(chars, c) - 1]
        Of(blocks) ==
            [c \in UNION {Range(blocks[k].chars) : k \in 1..Len(blocks)} |->
                LET k == CHOOSE k \in 1..Len(blocks) : c \in Range(blocks[k].chars)
                IN Block(blocks[k].chars, blocks[k].first)[c]]
    IN Of(CharBlocks)

Alphabet == DOMAIN CodePoint

\* ord(c); a character outside the alphabet has no value in the model
Ord(c) == CodePoint[c]

\* chr(n), for the code point of a character of the alphabet
Chr(n) == LET Of(points) == CHOOSE c \in DOMAIN points : points[c] = n
          IN Of(CodePoint)

\* str.lower() on every character of the alphabet: A-Z and the upper-case
\* letters of Latin-1 (192 to 222 without the multiplication sign) go to the
\* letter 32 code points up, every other character is kept
LowerOf ==
    LET Low(c, n) == IF (65 <= n /\ n <= 90) \/ (192 <= n /\ n <= 222 /\ n # 215)
                     THEN Chr(n + 32) ELSE c
        Of(points) == [c \in DOMAIN points |-> Low(c, points[c])]
    IN Of(CodePoint)

\* str.lower() on one character
LowerChar(c) == LowerOf[c]

\* str.lower()
Lower(s) == [i \in 1..Len(s) |-> LowerChar(s[i])]

\* the code points str.strip() takes off (str.isspace): tab to carriage
\* return, the four separators, the space, and the spaces of Unicode
Whitespace ==
    (9..13) \cup (28..32) \cup {133, 160, 5760} \cup (8192..8202)
        \cup {8232, 8233, 8239, 8287, 12288}

\* c.isspace() for one character
IsSpace(c) == Ord(c) \in Whitespace

RECURSIVE StripWs(_)
\* s.strip(): white space taken off both ends
StripWs(s) ==
    IF Len(s) > 0 /\ IsSpace(s[1]) THEN StripWs(Tail(s))
    ELSE IF Len(s) > 0 /\ IsSpace(s[Len(s)])
         THEN StripWs(SubSeq(s, 1, Len(s) - 1))
    ELSE s

\* f in s, for two strings
IsSubstring(f, s) ==
    \E i \in 0..(Len(s) - Len(f)) : SubSeq(s, i + 1, i + Len(f)) = f

RECURSIVE Join(_, _)
\* sep.join(items)
Join(sep, items) ==
    IF Len(items) = 0 THEN <<>>
    ELSE IF Len(items) = 1 THEN items[1]
    ELSE items[1] \o sep \o Join(sep, Tail(items))

RECURSIVE Concat(_)
\* the concatenation of a sequence of sequences
Concat(ss) == IF Len(ss) = 0 THEN <<>> ELSE ss[1] \o Concat(Tail(ss))

\* a < b for two strings, as Python compares them (by code point, then length)
RECURSIVE StrLess(_, _)
StrLess(a, b) ==
    IF Len(b) = 0 THEN FALSE
    ELSE IF Len(a) = 0 THEN TRUE
    ELSE LET First(x, y) == IF x < y THEN TRUE
                            ELSE IF x > y THEN FALSE
                            ELSE StrLess(Tail(a), Tail(b))
         IN First(Ord(a[1]), Ord(b[1]))

RECURSIVE Sorted(_)
\* sorted(S) for a set of strings
Sorted(S) ==
    IF S = {} THEN <<>>
    ELSE LET m == CHOOSE x \in S : \A y \in S \ {x} : StrLess(x, y)
         IN <<m>> \o Sorted(S \ {m})

RECURSIVE Log2Floor(_, _)
\* the exponent j with 2^j <= a / b < 2^(j + 1), for a, b > 0
Log2Floor(a, b) ==
    IF a < b THEN Log2Floor(2 * a, b) - 1
    ELSE IF a >= 2 * b THEN Log2Floor(a, 2 * b) + 1
    ELSE 0

RECURSIVE ShiftMod(_, _, _)
\* (a * 2^e) % b
ShiftMod(a, e, b) == IF e = 0 THEN a % b ELSE ShiftMod((2 * a) % b, e - 1, b)

\* the double a / b against the fraction a / b: 1 when the division rounded
\* up, -1 when it rounded down, 0 when the quotient is a double.  The double
\* keeps 53 bits: with e = 52 - Log2Floor(a, b) it is the integer nearest to
\* a * 2^e / b, and what that integer leaves out is (a * 2^e) % b.
FloatError(a, b) ==
    LET e == 52 - Log2Floor(a, b)
        r == ShiftMod(a, e, b)
    IN IF r = 0 THEN 0 ELSE IF 2 * r > b THEN 1 ELSE 0 - 1

\* round(n / d, 3) in thousandths, d > 0, n >= 0: the thousandth nearest to
\* the double n / d.  When the fraction n / d lies half way between two
\* thousandths the double decides: it is above or below the fraction unless
\* the fraction is a double (a denominator that is a power of two), and then
\* the even thousandth is taken.
Round3(n, d) ==
    LET q == (1000 * n) \div d
        r == (1000 * n) % d
        up == FloatError(n, d)
    IN IF 2 * r < d THEN q
       ELSE IF 2 * r > d THEN q + 1
       ELSE IF up > 0 THEN q + 1
       ELSE IF up < 0 THEN q
       ELSE IF q % 2 = 0 THEN q ELSE q + 1

RECURSIVE SumSeq(_)
\* sum(values)
SumSeq(values) == IF Len(values) = 0 THEN 0 ELSE Head(values) + SumSeq(Tail(values))

\* round(n / d) for d > 0 and any integer n: the nearest integer, a tie going
\* to the even one
RoundDiv(n, d) ==
    LET q == n \div d
        r == n - q * d
    IN IF 2 * r < d THEN q
       ELSE IF 2 * r > d THEN q + 1
       ELSE IF q % 2 = 0 THEN q ELSE q + 1

\* n / d lies half way between two integers
HalfWay(n, d) == (2 * n) % d = 0 /\ ((2 * n) \div d) % 2 = 1

(***************************************************************************)
(* Python floats.  A double is a sign, a mantissa and an exponent: the     *)
(* value is m * 2^e, negated when neg.  The mantissa has up to 53 bits; it *)
(* is a natural number written in limbs of 15 bits, the least significant  *)
(* first and the most significant not 0 (no limb at all for 0), because    *)
(* 53 bits do not fit an integer of the model.  Every operation computes   *)
(* the exact result and rounds it to 53 bits, a tie to the even mantissa,  *)
(* as the hardware does; the magnitudes that occur are far from overflow   *)
(* and from the subnormal numbers.                                         *)
(***************************************************************************)
Limb == 2 ^ 15

RECURSIVE Big(_)
\* the limbs of a natural number
Big(n) == IF n = 0 THEN <<>> ELSE <<n % Limb>> \o Big(n \div Limb)

RECURSIVE BigValue(_)
\* the natural number of a few limbs
BigValue(a) == IF Len(a) = 0 THEN 0 ELSE a[1] + Limb * BigValue(Tail(a))

\* the limbs without most significant zeros
BigTrim(a) ==
    LET used == {i \in 1..Len(a) : a[i] # 0}
    IN IF used = {} THEN <<>>
       ELSE SubSeq(a, 1, CHOOSE i \in used : \A j \in used : j <= i)

\* the least significant limb, 0 where there is none
Low(a) == IF Len(a) > 0 THEN a[1] ELSE 0

\* a with zero limbs above it, n limbs in all
BigPad(a, n) == a \o [i \in 1..(n - Len(a)) |-> 0]

(***************************************************************************)
(* The operations on limbs walk a number by halves, the half that gives    *)
(* the carry (or borrow, or remainder) first and the other half with it,   *)
(* so that numbers of hundreds of limbs are as near at hand as short ones. *)
(* The carry brought in is looked at before anything else: it is settled   *)
(* before the limbs that depend on it are walked.                          *)
(***************************************************************************)
RECURSIVE BigAddFrom(_, _, _)
\* the limbs of a + b + carry, as many as a and b have each, and the carry
\* out of them
BigAddFrom(a, b, carry) ==
    IF carry > 1 \/ Len(a) = 0 THEN [m |-> <<>>, carry |-> carry]
    ELSE IF Len(a) = 1
    THEN [m |-> <<(a[1] + b[1] + carry) % Limb>>, carry |-> (a[1] + b[1] + carry) \div Limb]
    ELSE LET Both(low, top) == [m |-> low.m \o top.m, carry |-> top.carry]
             Above(low, h) ==
                 Both(low, BigAddFrom(SubSeq(a, h + 1, Len(a)), SubSeq(b, h + 1, Len(b)),
                                      low.carry))
             Halves(h) == Above(BigAddFrom(SubSeq(a, 1, h), SubSeq(b, 1, h), carry), h)
         IN Halves(Len(a) \div 2)

\* a + b + carry, for a carry of 0 or 1
BigAdd(a, b, carry) ==
    LET Whole(sum) == sum.m \o Big(sum.carry)
        Padded(n) == Whole(BigAddFrom(BigPad(a, n), BigPad(b, n), carry))
    IN IF Len(a) = 0 /\ Len(b) = 0 THEN Big(carry) ELSE Padded(Max(Len(a), Len(b)))

RECURSIVE BigSubFrom(_, _, _)
\* the limbs of a - b - borrow, as many as a and b have each, and the borrow
\* out of them
BigSubFrom(a, b, borrow) ==
    IF borrow > 1 \/ Len(a) = 0 THEN [m |-> <<>>, borrow |-> borrow]
    ELSE IF Len(a) = 1
    THEN [m |-> <<(a[1] - b[1] - borrow) % Limb>>,
          borrow |-> IF a[1] - b[1] - borrow < 0 THEN 1 ELSE 0]
    ELSE LET Both(low, top) == [m |-> low.m \o top.m, borrow |-> top.borrow]
             Above(low, h) ==
                 Both(low, BigSubFrom(SubSeq(a, h + 1, Len(a)), SubSeq(b, h + 1, Len(b)),
                                      low.borrow))
             Halves(h) == Above(BigSubFrom(SubSeq(a, 1, h), SubSeq(b, 1, h), borrow), h)
         IN Halves(Len(a) \div 2)

\* a - b - borrow, for a >= b + borrow; most significant zeros are left in
BigSub(a, b, borrow) == BigSubFrom(a, BigPad(b, Len(a)), borrow).m

\* a < b
BigLess(a, b) ==
    \/ Len(a) < Len(b)
    \/ /\ Len(a) = Len(b)
       /\ \E i \in 1..Len(a) : a[i] < b[i] /\ \A j \in (i + 1)..Len(a) : a[j] = b[j]

RECURSIVE BigMulFrom(_, _, _)
\* the limbs of a * c + carry, as many as a has, and the carry out of them
BigMulFrom(a, c, carry) ==
    IF carry >= Limb \/ Len(a) = 0 THEN [m |-> <<>>, carry |-> carry]
    ELSE IF Len(a) = 1
    THEN [m |-> <<(a[1] * c + carry) % Limb>>, carry |-> (a[1] * c + carry) \div Limb]
    ELSE LET Both(low, top) == [m |-> low.m \o top.m, carry |-> top.carry]
             Above(low, h) == Both(low, BigMulFrom(SubSeq(a, h + 1, Len(a)), c, low.carry))
             Halves(h) == Above(BigMulFrom(SubSeq(a, 1, h), c, carry), h)
         IN Halves(Len(a) \div 2)

\* a * c + carry, for natural numbers c and carry of at most 15 bits
BigMul(a, c, carry) ==
    LET Whole(product) == product.m \o Big(product.carry)
    IN Whole(BigMulFrom(a, c, carry))

RECURSIVE BigDivFrom(_, _, _)
\* long division from the top limb, by a natural number n of at most 15
\* bits: the limbs of a are divided with the remainder r < n of the limbs
\* above them brought down, the upper half first, then the lower half
BigDivFrom(a, n, r) ==
    IF r >= n \/ Len(a) = 0 THEN [q |-> <<>>, r |-> r]
    ELSE IF Len(a) = 1 THEN [q |-> <<(r * Limb + a[1]) \div n>>, r |-> (r * Limb + a[1]) % n]
    ELSE LET Both(top, low) == [q |-> low.q \o top.q, r |-> low.r]
             Below(top, h) == Both(top, BigDivFrom(SubSeq(a, 1, h), n, top.r))
             Halves(h) == Below(BigDivFrom(SubSeq(a, h + 1, Len(a)), n, r), h)
         IN Halves(Len(a) \div 2)

\* the quotient (most significant zeros left in) and the remainder of a by
\* a natural number n of at most 15 bits
BigDiv(a, n) == BigDivFrom(a, n, 0)

RECURSIVE BitLen(_)
\* the number of bits of a natural number
BitLen(n) == IF n = 0 THEN 0 ELSE 1 + BitLen(n \div 2)

\* the number of bits of a
BigBitLen(a) == IF Len(a) = 0 THEN 0 ELSE 15 * (Len(a) - 1) + BitLen(a[Len(a)])

\* a * 2^k
BigShiftLeft(a, k) == BigTrim(BigMul([i \in 1..(k \div 15) |-> 0] \o a, 2 ^ (k % 15), 0))

\* a \div 2^k, and whether a bit that is 1 was cut off
BigShiftRight(a, k) ==
    LET Cut(d) == [q |-> BigTrim(d.q),
                   lost |-> d.r # 0 \/ \E i \in 1..Min(k \div 15, Len(a)) : a[i] # 0]
    IN Cut(BigDiv(SubSeq(a, k \div 15 + 1, Len(a)), 2 ^ (k % 15)))

\* a natural number halved, and whether it is odd
BigHalf(a) == BigTrim(BigDiv(a, 2).q)

BigOdd(a) == Low(a) % 2 = 1

\* m * 2^e (plus a little more when inexact, for a quotient with a
\* remainder) without its last d bits: rounded up when what is cut off is
\* more than half of the last place kept, or is that half and the last bit
\* kept is 1.  One bit more is taken first, which is the half.
RoundCut(neg, m, e, inexact, d) ==
    LET Rounded(cut) ==
            [neg |-> neg,
             m |-> IF BigOdd(cut.q) /\ (inexact \/ cut.lost \/ BigOdd(BigHalf(cut.q)))
                   THEN BigAdd(BigHalf(cut.q), <<>>, 1)
                   ELSE BigHalf(cut.q),
             e |-> e + d]
    IN IF d <= 0 THEN [neg |-> neg /\ Len(m) > 0, m |-> m, e |-> e]
       ELSE Rounded(BigShiftRight(m, d - 1))

\* the double nearest to m * 2^e (plus a little more when inexact): the
\* first 53 bits, the rest cut off
RoundBits(neg, m, e, inexact) == RoundCut(neg, m, e, inexact, BigBitLen(m) - 53)

\* float(n) of an integer
FloatOf(n) == [neg |-> n < 0, m |-> Big(IF n < 0 THEN 0 - n ELSE n), e |-> 0]

\* -x
FloatNeg(x) == [x EXCEPT !.neg = ~x.neg /\ Len(x.m) > 0]

\* x + y
FloatAdd(x, y) ==
    LET Sum(a, b, e) ==
            IF x.neg = y.neg THEN RoundBits(x.neg, BigAdd(a, b, 0), e, FALSE)
            ELSE IF BigLess(a, b) THEN RoundBits(y.neg, BigTrim(BigSub(b, a, 0)), e, FALSE)
            ELSE RoundBits(x.neg, BigTrim(BigSub(a, b, 0)), e, FALSE)
        Align(e) == Sum(BigShiftLeft(x.m, x.e - e), BigShiftLeft(y.m, y.e - e), e)
    IN IF Len(x.m) = 0 THEN y
       ELSE IF Len(y.m) = 0 THEN x
       ELSE Align(Min(x.e, y.e))

\* x * c, for a natural number c of at most 15 bits
FloatMul(x, c) == RoundBits(x.neg, BigMul(x.m, c, 0), x.e, FALSE)

\* x / n, for a natural number n > 0 of at most 15 bits: the quotient is
\* taken to 75 bits behind the mantissa of x, and a remainder makes it
\* inexact
FloatDiv(x, n) ==
    LET Quotient(d) == RoundBits(x.neg, BigTrim(d.q), x.e - 75, d.r # 0)
    IN Quotient(BigDiv(BigShiftLeft(x.m, 75), n))

RECURSIVE FloatSum(_)
\* sum(xs): the items added one after the other, from 0
FloatSum(xs) ==
    IF Len(xs) = 0 THEN FloatOf(0)
    ELSE FloatAdd(FloatSum(SubSeq(xs, 1, Len(xs) - 1)), xs[Len(xs)])

\* round(x, ndigits) in units of the last digit kept, unit = 10^ndigits: the
\* integer nearest to x * unit, the even one when x * unit lies half way;
\* x * unit is taken exactly
RoundFloat(x, unit) ==
    LET Signed(k) == IF x.neg THEN 0 - k ELSE k
        Nearest(cut) ==
            IF BigOdd(cut.q) /\ (cut.lost \/ BigOdd(BigHalf(cut.q)))
            THEN BigValue(BigHalf(cut.q)) + 1
            ELSE BigValue(BigHalf(cut.q))
        Scaled(n) == IF x.e >= 0 THEN BigValue(BigShiftLeft(n, x.e))
                     ELSE Nearest(BigShiftRight(n, 0 - x.e - 1))
    IN Signed(Scaled(BigMul(x.m, unit, 0)))

\* round(sum(xs) / len(xs), ndigits) for floats that are the doubles of
\* values[i] / unit, in units of the last digit kept.  A fraction over
\* len(xs) that is not half way between two units lies 1 / (2 * len(xs)) or
\* more from the tie, and the rounding errors of the doubles (2^-53 of each
\* value, of each partial sum and of the quotient) stay far below that for
\* lists of fewer than ten thousand values of at most a thousand units: there
\* the mean rounds as the fraction does.  At a tie the doubles decide.
MeanRounded(values, unit) ==
    IF HalfWay(SumSeq(values), Len(values))
    THEN RoundFloat(FloatDiv(FloatSum([i \in 1..Len(values) |->
                                          FloatDiv(FloatOf(values[i]), unit)]),
                             Len(values)),
                    unit)
    ELSE RoundDiv(SumSeq(values), Len(values))

(***************************************************************************)
(* JSON values and json.loads.  A value is a record [t, s, l]:             *)
(*   "missing"  the key is absent        "none"   None                     *)
(*   "bool"     s the text true or false "int", "float"  s the number as   *)
(*   "str"      s the characters                          JSON writes it    *)
(*   "list"     l the items              "dict"   l the pairs, each a       *)
(*                                        record of t "pair", key s, value *)
(*                                        l[1]                              *)
(* "error" stands for the JSONDecodeError json.loads raises, "valueerror"   *)
(* for the ValueError of an int literal of more digits than int() takes   *)
(* and "recursionerror" for the RecursionError of a text nested deeper     *)
(* than the interpreter's stack allows.                                    *)
(***************************************************************************)
JNone == [t |-> "none", s |-> <<>>, l |-> <<>>]

JMissing == [t |-> "missing", s |-> <<>>, l |-> <<>>]

JError == [t |-> "error", s |-> <<>>, l |-> <<>>]

JValueError == [t |-> "valueerror", s |-> <<>>, l |-> <<>>]

JRecursionError == [t |-> "recursionerror", s |-> <<>>, l |-> <<>>]

\* json.loads raised and returned no value
JsonRaised(v) == v.t \in {"error", "valueerror", "recursionerror"}

JStr(chars) == [t |-> "str", s |-> chars, l |-> <<>>]

JInt(digits) == [t |-> "int", s |-> digits, l |-> <<>>]

JFloat(text) == [t |-> "float", s |-> text, l |-> <<>>]

JBool(text) == [t |-> "bool", s |-> text, l |-> <<>>]

\* a list of any values
JArray(values) == [t |-> "list", s |-> <<>>, l |-> values]

\* a list of strings
JList(items) == JArray([i \in 1..Len(items) |-> JStr(items[i])])

JPair(key, value) == [t |-> "pair", s |-> key, l |-> <<value>>]

JDict(pairs) == [t |-> "dict", s |-> <<>>, l |-> pairs]

\* d[key] = value on the pairs of a dict: a key already there keeps its place
DictPut(pairs, key, value) ==
    IF \E k \in 1..Len(pairs) : pairs[k].s = key
    THEN [k \in 1..Len(pairs) |->
              IF pairs[k].s = key THEN JPair(key, value) ELSE pairs[k]]
    ELSE Append(pairs, JPair(key, value))

IsDigit(c) == c \in Range(Digits)

\* the mantissa of a number text: what stands before the exponent
Mantissa(text) ==
    IF \E k \in 1..Len(text) : text[k] \in {"e", "E"}
    THEN SubSeq(text, 1, (CHOOSE k \in 1..Len(text) :
                              /\ text[k] \in {"e", "E"}
                              /\ \A j \in 1..(k - 1) : text[j] \notin {"e", "E"}) - 1)
    ELSE text

\* the positions of ds that hold another digit than 0
NonZeroAt(ds) == {i \in 1..Len(ds) : ds[i] # "0"}

StripLeadingZeros(ds) ==
    IF NonZeroAt(ds) = {} THEN <<>>
    ELSE SubSeq(ds, CHOOSE i \in NonZeroAt(ds) : \A j \in NonZeroAt(ds) : i <= j, Len(ds))

StripTrailingZeros(ds) ==
    IF NonZeroAt(ds) = {} THEN <<>>
    ELSE SubSeq(ds, 1, CHOOSE i \in NonZeroAt(ds) : \A j \in NonZeroAt(ds) : j <= i)

RECURSIVE ToNat(_)
\* int(ds) for a string of digits
ToNat(ds) ==
    IF Len(ds) = 0 THEN 0
    ELSE 10 * ToNat(SubSeq(ds, 1, Len(ds) - 1)) + IndexOf(Digits, ds[Len(ds)]) - 1

RECURSIVE BigTimes10(_, _)
\* a * 10^k
BigTimes10(a, k) ==
    IF Len(a) = 0 THEN <<>>
    ELSE IF k <= 4 THEN BigMul(a, 10 ^ k, 0)
    ELSE BigTimes10(BigTimes10(a, k \div 2), k - k \div 2)

RECURSIVE BigOfDigits(_)
\* int(ds) for a string of digits, in limbs
BigOfDigits(ds) ==
    IF Len(ds) <= 4 THEN Big(ToNat(ds))
    ELSE LET Halves(h) ==
                 BigAdd(BigTimes10(BigOfDigits(SubSeq(ds, 1, h)), Len(ds) - h),
                        BigOfDigits(SubSeq(ds, h + 1, Len(ds))), 0)
         IN Halves(Len(ds) \div 2)

RECURSIVE BigOver5(_, _)
\* a \div 5^k, and whether the division left a remainder
BigOver5(a, k) ==
    IF Len(a) = 0 THEN [q |-> <<>>, lost |-> FALSE]
    ELSE IF k <= 6
    THEN LET Cut(d) == [q |-> BigTrim(d.q), lost |-> d.r # 0]
         IN Cut(BigDiv(a, 5 ^ k))
    ELSE LET Both(first, second) == [q |-> second.q, lost |-> first.lost \/ second.lost]
             Rest(first) == Both(first, BigOver5(first.q, k - k \div 2))
         IN Rest(BigOver5(a, k \div 2))

\* a whole number of any size: its sign and the limbs of its size
SignedBig(neg, size) == [neg |-> neg /\ Len(size) > 0, m |-> size]

\* the whole number n
SignedOf(n) == SignedBig(n < 0, Big(IF n < 0 THEN 0 - n ELSE n))

\* a + b
SignedAdd(a, b) ==
    IF a.neg = b.neg THEN SignedBig(a.neg, BigAdd(a.m, b.m, 0))
    ELSE IF BigLess(a.m, b.m) THEN SignedBig(b.neg, BigTrim(BigSub(b.m, a.m, 0)))
    ELSE SignedBig(a.neg, BigTrim(BigSub(a.m, b.m, 0)))

\* a < b
SignedLess(a, b) ==
    IF a.neg # b.neg THEN a.neg
    ELSE IF a.neg THEN BigLess(b.m, a.m)
    ELSE BigLess(a.m, b.m)

\* the integer of a whole number of a few limbs
SignedValue(a) == IF a.neg THEN 0 - BigValue(a.m) ELSE BigValue(a.m)

\* the value of a number text: sign * 0.digits * 10^p, with no zero at
\* either end of digits and p a whole number of any size, the exponent the
\* text writes (as many digits as it has) plus the digits before the point
\* and minus the zeros behind it that lead the digits.  0 is 0.0 * 10^1.
NumValue(text) ==
    LET neg == text[1] = "-"
        body == IF neg THEN Tail(text) ELSE text
        mant == Mantissa(body)
        exptext == SubSeq(body, Len(mant) + 2, Len(body))
        expdigits == StripLeadingZeros(IF Len(exptext) > 0 /\ exptext[1] \in {"+", "-"}
                                       THEN Tail(exptext) ELSE exptext)
        exp == SignedBig(Len(exptext) > 0 /\ exptext[1] = "-", BigOfDigits(expdigits))
        dot == IF "." \in Range(mant) THEN IndexOf(mant, ".") ELSE Len(mant) + 1
        frac == SubSeq(mant, dot + 1, Len(mant))
        all == StripLeadingZeros(SubSeq(mant, 1, dot - 1) \o frac)
        sig == StripTrailingZeros(all)
    IN IF Len(sig) = 0 THEN [k |-> "number", s |-> <<"0">>, p |-> SignedOf(1)]
       ELSE [k |-> IF neg THEN "negative" ELSE "number", s |-> sig,
             p |-> SignedAdd(exp, SignedOf(Len(all) - Len(frac)))]

\* float("inf") and float("-inf"), kept as 2^1024, which no double reaches
Infinity(neg) == [neg |-> neg, m |-> <<1>>, e |-> 1024]

\* float(text) for the text of a JSON number: the double nearest to the
\* decimal 0.digits * 10^p = digits * 10^e, a tie going to the even
\* mantissa.  A decimal of 10^309 or more is inf and one below 10^-324 is
\* 0.0, however large the exponent of the text is; a whole number is
\* rounded to 53 bits; a fraction digits / 10^k is digits * 2^s / 5^k at
\* 2^(-s - k), with s large enough for a quotient of 56 bits or more, cut to
\* 53 bits or to the multiples of 2^-1074 (the subnormal doubles), whichever
\* is coarser.  What rounds to 2^1024 or more is inf.
FloatOfDecimal(text) ==
    LET Finite(x) == IF BigBitLen(x.m) + x.e > 1024 THEN Infinity(x.neg) ELSE x
        Quotient(neg, d, e) ==
            RoundCut(neg, d.q, e, d.lost, Max(BigBitLen(d.q) - 53, 0 - 1074 - e))
        Scaled(neg, digits, k, s) ==
            Quotient(neg, BigOver5(BigShiftLeft(digits, s), k), 0 - s - k)
        Fraction(neg, digits, k) ==
            Scaled(neg, digits, k, Max(0, 57 + 3 * k - BigBitLen(digits)))
        Near(v, neg, e) ==
            IF e >= 0
            THEN Finite(RoundBits(neg, BigTimes10(BigOfDigits(v.s), e), 0, FALSE))
            ELSE Finite(Fraction(neg, BigOfDigits(v.s), 0 - e))
        Of(v, neg) ==
            IF v.s = <<"0">> THEN [neg |-> neg, m |-> <<>>, e |-> 0]
            ELSE IF SignedLess(SignedOf(309), v.p) THEN Infinity(neg)
            ELSE IF SignedLess(v.p, SignedOf(0 - 323))
                 THEN [neg |-> neg, m |-> <<>>, e |-> 0]
            ELSE Near(v, neg, SignedValue(v.p) - Len(v.s))
    IN Of(NumValue(text), text[1] = "-")

\* the text of a number that is no decimal: NaN, Infinity, -Infinity
IsConstantText(text) == \E k \in 1..Len(text) : text[k] \in {"N", "I"}

\* bool(v): None, False, zero, and the empty string, list and dict are false
\* (NaN and the infinities are true).  An int is zero when it has no digit
\* but 0, a float when its double is 0.0, which is also what a decimal too
\* small for a double gives.
Truthy(v) ==
    IF v.t \in {"none", "missing"} THEN FALSE
    ELSE IF v.t = "bool" THEN v.s = <<"t", "r", "u", "e">>
    ELSE IF v.t = "int" THEN NumValue(v.s).s # <<"0">>
    ELSE IF v.t = "float"
         THEN IsConstantText(v.s) \/ Len(FloatOfDecimal(v.s).m) > 0
    ELSE IF v.t = "str" THEN Len(v.s) > 0
    ELSE Len(v.l) > 0

\* the white space json.loads skips
JsonWhitespace == {" ", "\t", "\n", "\r"}

\* the first position at or after i that holds no white space
SkipWs(raw, i) ==
    IF i > Len(raw) THEN i
    ELSE CHOOSE n \in i..(Len(raw) + 1) :
             /\ n = Len(raw) + 1 \/ raw[n] \notin JsonWhitespace
             /\ \A k \in i..(n - 1) : raw[k] \in JsonWhitespace

\* the character at position i, or the empty string behind the end
At(raw, i) == IF 1 <= i /\ i <= Len(raw) THEN raw[i] ELSE ""

\* raw[i : i + len(word)] == word
StartsAt(raw, i, word) ==
    i + Len(word) - 1 <= Len(raw) /\ SubSeq(raw, i, i + Len(word) - 1) = word

\* the first position at or after i that holds no digit
DigitsEnd(raw, i) ==
    IF i > Len(raw) THEN i
    ELSE CHOOSE n \in i..(Len(raw) + 1) :
             /\ n = Len(raw) + 1 \/ ~IsDigit(raw[n])
             /\ \A k \in i..(n - 1) : IsDigit(raw[k])

\* NUMBER_RE, (-?(?:0|[1-9][0-9]*))(\.[0-9]+)?([eE][-+]?[0-9]+)?, matched at
\* position i: the positions behind the integer part (0 when there is no
\* match), behind the fraction and behind the exponent
NumberMatch(raw, i) ==
    LET Exponent(ie, fe, xs) ==
            [int |-> ie, frac |-> fe,
             exp |-> IF xs > 0 /\ IsDigit(At(raw, xs)) THEN DigitsEnd(raw, xs) ELSE fe]
        Fraction(ie, fe) ==
            Exponent(ie, fe,
                     IF At(raw, fe) \in {"e", "E"}
                     THEN (IF At(raw, fe + 1) \in {"+", "-"} THEN fe + 2 ELSE fe + 1)
                     ELSE 0)
        Integer(ie) ==
            Fraction(ie, IF At(raw, ie) = "." /\ IsDigit(At(raw, ie + 1))
                         THEN DigitsEnd(raw, ie + 1) ELSE ie)
        Digit(s, c) ==
            Integer(IF c = "0" THEN s + 1 ELSE IF IsDigit(c) THEN DigitsEnd(raw, s) ELSE 0)
        Sign(s) == Digit(s, At(raw, s))
    IN Sign(IF At(raw, i) = "-" THEN i + 1 ELSE i)

\* what a parser returns: the value and the position behind it
Parsed(value, next) == [v |-> value, i |-> next]

ParseFailed == Parsed(JError, 0)

\* int(numstr), the default parse_int, raises ValueError on a literal of
\* more than 4300 digits (sys.int_info.default_max_str_digits), the sign
\* not counted; a literal with a fraction or an exponent goes to float(),
\* which takes any number of digits
IntTooLong(literal) ==
    Len(literal) - (IF literal[1] = "-" THEN 1 ELSE 0) > 4300

\* scan_once enters a list or an object through Py_EnterRecursiveCall,
\* which raises RecursionError when the frames in use and the containers
\* open reach sys.getrecursionlimit(), 1000.  In a run of
\* generate_dataset.py seven frames are in use at the first container (the
\* module, main, generate_test_case, _file_fragments, json.loads, decode,
\* raw_decode): the container that is the 993rd open one raises.
TooDeep(depth) == depth + 7 >= 1000

HexDigits == Digits \o <<"a", "b", "c", "d", "e", "f">>

IsHex(c) == LowerChar(c) \in Range(HexDigits)

\* int(esc, 16) for four hexadecimal digits
Hex4(esc) ==
    LET Value(d) == ((d[1] * 16 + d[2]) * 16 + d[3]) * 16 + d[4]
    IN Value([k \in 1..4 |-> IndexOf(HexDigits, LowerChar(esc[k])) - 1])

\* BACKSLASH: what stands for the character behind a backslash
Unescaped(c) ==
    IF c = "b" THEN Backspace
    ELSE IF c = "f" THEN "\f"
    ELSE IF c = "n" THEN "\n"
    ELSE IF c = "r" THEN "\r"
    ELSE IF c = "t" THEN "\t"
    ELSE c

RECURSIVE ScanString(_, _, _)
\* scanstring: the string whose opening quote stands before position i; out
\* collects its characters.  A control character, an unknown escape and a
\* missing closing quote are errors.
ScanString(raw, i, out) ==
    IF i > Len(raw) THEN ParseFailed
    ELSE IF raw[i] = "\"" THEN Parsed(JStr(out), i + 1)
    ELSE IF raw[i] = "\\"
         THEN IF At(raw, i + 1) \in {"\"", "\\", "/", "b", "f", "n", "r", "t"}
              THEN ScanString(raw, i + 2, Append(out, Unescaped(raw[i + 1])))
              ELSE IF /\ At(raw, i + 1) = "u"
                      /\ i + 5 <= Len(raw)
                      /\ \A k \in (i + 2)..(i + 5) : IsHex(raw[k])
                   THEN ScanString(raw, i + 6,
                                   Append(out, Chr(Hex4(SubSeq(raw, i + 2, i + 5)))))
              ELSE ParseFailed
    ELSE IF Ord(raw[i]) < 32 THEN ParseFailed
    ELSE ScanString(raw, i + 1, Append(out, raw[i]))

RECURSIVE ParseValue(_, _, _)
RECURSIVE ParseItems(_, _, _, _)
RECURSIVE ParseMembers(_, _, _, _)
\* scan_once: the value that starts at position i, inside depth open lists
\* and objects
ParseValue(raw, i, depth) ==
    LET Value(c, inner, num) ==
            IF c = "\"" THEN ScanString(raw, i + 1, <<>>)
            ELSE IF c \in {"{", "["} /\ TooDeep(depth + 1)
                 THEN Parsed(JRecursionError, 0)
            ELSE IF c = "{"
                 THEN IF At(raw, inner) = "}"
                      THEN Parsed(JDict(<<>>), inner + 1)
                      ELSE ParseMembers(raw, inner, <<>>, depth + 1)
            ELSE IF c = "["
                 THEN IF At(raw, inner) = "]"
                      THEN Parsed(JArray(<<>>), inner + 1)
                      ELSE ParseItems(raw, inner, <<>>, depth + 1)
            ELSE IF StartsAt(raw, i, <<"n", "u", "l", "l">>) THEN Parsed(JNone, i + 4)
            ELSE IF StartsAt(raw, i, <<"t", "r", "u", "e">>)
                 THEN Parsed(JBool(<<"t", "r", "u", "e">>), i + 4)
            ELSE IF StartsAt(raw, i, <<"f", "a", "l", "s", "e">>)
                 THEN Parsed(JBool(<<"f", "a", "l", "s", "e">>), i + 5)
            ELSE IF num.int > 0
                 THEN IF num.exp # num.int
                      THEN Parsed(JFloat(SubSeq(raw, i, num.exp - 1)), num.exp)
                      ELSE IF IntTooLong(SubSeq(raw, i, num.int - 1))
                           THEN Parsed(JValueError, 0)
                      ELSE Parsed(JInt(SubSeq(raw, i, num.int - 1)), num.int)
            ELSE IF StartsAt(raw, i, <<"N", "a", "N">>)
                 THEN Parsed(JFloat(<<"N", "a", "N">>), i + 3)
            ELSE IF StartsAt(raw, i, <<"I", "n", "f", "i", "n", "i", "t", "y">>)
                 THEN Parsed(JFloat(SubSeq(raw, i, i + 7)), i + 8)
            ELSE IF StartsAt(raw, i, <<"-", "I", "n", "f", "i", "n", "i", "t", "y">>)
                 THEN Parsed(JFloat(SubSeq(raw, i, i + 8)), i + 9)
            ELSE ParseFailed
    IN Value(At(raw, i), SkipWs(raw, i + 1), NumberMatch(raw, i))

\* JSONArray: the items of a list, from position i where an item starts;
\* behind an item stands "]" or ",", white space allowed around both.  What
\* an item raises, the list raises.
ParseItems(raw, i, items, depth) ==
    LET Close(found, n) ==
            IF At(raw, n) = "]" THEN Parsed(JArray(found), n + 1)
            ELSE IF At(raw, n) = ","
                 THEN ParseItems(raw, SkipWs(raw, n + 1), found, depth)
            ELSE ParseFailed
        Item(item) ==
            IF JsonRaised(item.v) THEN item
            ELSE Close(Append(items, item.v), SkipWs(raw, item.i))
    IN Item(ParseValue(raw, i, depth))

\* JSONObject: the pairs of an object, from position i where a key starts
ParseMembers(raw, i, pairs, depth) ==
    LET Close(found, n) ==
            IF At(raw, n) = "}" THEN Parsed(JDict(found), n + 1)
            ELSE IF At(raw, n) = ","
                 THEN ParseMembers(raw, SkipWs(raw, n + 1), found, depth)
            ELSE ParseFailed
        Value(key, value) ==
            IF JsonRaised(value.v) THEN value
            ELSE Close(DictPut(pairs, key.v.s, value.v), SkipWs(raw, value.i))
        Colon(key, colon) ==
            IF At(raw, colon) = ":"
            THEN Value(key, ParseValue(raw, SkipWs(raw, colon + 1), depth))
            ELSE ParseFailed
        Key(key) ==
            IF key.v.t = "error" THEN ParseFailed
            ELSE Colon(key, SkipWs(raw, key.i))
    IN IF At(raw, i) = "\"" THEN Key(ScanString(raw, i + 1, <<>>)) ELSE ParseFailed

\* json.loads(raw): one value with white space around it, nothing else;
\* what the scanner raises comes out as it is
JsonLoads(raw) ==
    LET End(value) ==
            IF JsonRaised(value.v) THEN value.v
            ELSE IF SkipWs(raw, value.i) = Len(raw) + 1 THEN value.v
            ELSE JError
    IN End(ParseValue(raw, SkipWs(raw, 1), 0))

(***************************************************************************)
(* pathlib: PurePosixPath(f).name and .stem                                *)
(***************************************************************************)
RECURSIVE SplitSlash(_, _, _)
\* f.split("/"): parts collects the finished components, cur the open one
SplitSlash(f, parts, cur) ==
    IF Len(f) = 0 THEN Append(parts, cur)
    ELSE IF f[1] = "/" THEN SplitSlash(Tail(f), Append(parts, cur), <<>>)
    ELSE SplitSlash(Tail(f), parts, Append(cur, f[1]))

\* Path(f).name: the last component, empty components and "." dropped
PathName(f) ==
    LET comps == SelectSeq(SplitSlash(f, <<>>, <<>>),
                           LAMBDA c : c # <<>> /\ c # <<".">>)
    IN IF Len(comps) = 0 THEN <<>> ELSE comps[Len(comps)]

\* Path(f).stem: the name without its last suffix; a leading or a trailing
\* dot starts no suffix
PathStem(f) ==
    LET name == PathName(f)
        dots == {i \in 1..Len(name) : name[i] = "."}
        last == IF dots = {} THEN 0 ELSE CHOOSE i \in dots : \A j \in dots : j <= i
    IN IF 1 < last /\ last < Len(name) THEN SubSeq(name, 1, last - 1) ELSE name

(***************************************************************************)
(* Cards and test cases.                                                   *)
(*   card      [flow, source_files]   both JSON values                     *)
(*   test case [expected_flows, expected_file_fragments]  lists of str     *)
(***************************************************************************)
\* what "for sf in v" yields: the items of a list, the characters of a
\* string, the keys of a dict, nothing when the key is absent (the default
\* of the runners is the empty list)
Iterated(v) ==
    IF v.t = "list" THEN v.l
    ELSE IF v.t = "str" THEN [i \in 1..Len(v.s) |-> JStr(<<v.s[i]>>)]
    ELSE IF v.t = "dict" THEN [i \in 1..Len(v.l) |-> JStr(v.l[i].s)]
    ELSE <<>>

\* "for sf in v" raises TypeError on None, a bool and a number
NotIterable(v) == v.t \in {"none", "bool", "int", "float"}

\* the strings "for sf in <source_files>" yields
IterItems(sf) == [i \in 1..Len(Iterated(sf)) |-> Iterated(sf)[i].s]

\* a loop that calls sf.lower() or Path(f) on what it is given raises on a
\* value that cannot be iterated (TypeError) and on an item that is no
\* string (AttributeError, TypeError)
IterRaises(sf) ==
    NotIterable(sf) \/ \E i \in 1..Len(Iterated(sf)) : Iterated(sf)[i].t # "str"

\* (r.get("flow") or "").lower() raises AttributeError on a flow that is
\* true and no string
FlowRaises(r) == Truthy(r.flow) /\ r.flow.t # "str"

Pending == [status |-> "pending", flow_hit_rate |-> 0, file_hit_rate |-> 0,
            precision_at_k |-> 0, found_flows |-> <<>>, missing_flows |-> <<>>,
            result_count |-> 0, value |-> <<>>, tokens |-> 0]

Raised == [Pending EXCEPT !.status = "raised"]

(***************************************************************************)
(* evaluate.py: compute_deterministic                                      *)
(***************************************************************************)
\* Mutant: the card's flow label compared as it arrives, not lower-cased.
FlowLabel_NotLowered(r) == IF r.flow.t = "str" THEN r.flow.s ELSE <<>>

\* (r.get("flow") or "").lower(), where it does not raise
FlowLabel(r) == IF r.flow.t = "str" THEN Lower(r.flow.s) ELSE <<>>

\* expected_flows: the set of the lower-cased expected flows
ExpectedFlows(tc) == {Lower(f) : f \in Range(tc.expected_flows)}

\* expected_files: the list of the lower-cased expected fragments
ExpectedFiles(tc) ==
    [i \in 1..Len(tc.expected_file_fragments) |-> Lower(tc.expected_file_fragments[i])]

\* result_flows
ResultFlows(rs) == {FlowLabel(rs[i]) : i \in 1..Len(rs)}

\* all_source_files: every iterated source file, lower-cased, in order
AllSourceFiles(rs) ==
    Concat([i \in 1..Len(rs) |->
              LET items == IterItems(rs[i].source_files)
              IN [j \in 1..Len(items) |-> Lower(items[j])]])

\* all_files_combined
AllFilesCombined(rs) == Join(<<" ">>, AllSourceFiles(rs))

\* found_file_frags
FoundFileFrags(expected_files, combined) ==
    SelectSeq(expected_files, LAMBDA f : IsSubstring(f, combined))

\* Mutant: every observed flow counted, whether expected or not.
FlowHitRate_NoIntersection(expected_flows, result_flows) ==
    IF expected_flows # {}
    THEN Round3(Cardinality(result_flows), Cardinality(expected_flows))
    ELSE 1000

\* flow_hit_rate, rounded; 1.0 when nothing is expected
FlowHitRate(expected_flows, result_flows) ==
    IF expected_flows # {}
    THEN Round3(Cardinality(expected_flows \cap result_flows), Cardinality(expected_flows))
    ELSE 1000

\* file_hit_rate, rounded; 1.0 when nothing is expected
FileHitRate(expected_files, combined) ==
    IF Len(expected_files) > 0
    THEN Round3(Len(FoundFileFrags(expected_files, combined)), Len(expected_files))
    ELSE 1000

\* relevant_results
RelevantResults(rs, expected_flows) ==
    Cardinality({i \in 1..Len(rs) : FlowLabel(rs[i]) \in expected_flows})

SEARCH_LIMIT == 10

\* Mutant: the relevant cards divided by the requested limit.
PrecisionAtK_OverLimit(rs, expected_flows) ==
    IF Len(rs) > 0 THEN Round3(RelevantResults(rs, expected_flows), SEARCH_LIMIT) ELSE 0

\* precision_at_k, rounded; 0.0 for an empty batch
PrecisionAtK(rs, expected_flows) ==
    IF Len(rs) > 0 THEN Round3(RelevantResults(rs, expected_flows), Len(rs)) ELSE 0

compute_deterministic(tc, rs) ==
    IF \E i \in 1..Len(rs) : FlowRaises(rs[i]) \/ IterRaises(rs[i].source_files)
    THEN Raised
    ELSE [Pending EXCEPT
            !.status = "returned",
            !.flow_hit_rate = FlowHitRate(ExpectedFlows(tc), ResultFlows(rs)),
            !.file_hit_rate = FileHitRate(ExpectedFiles(tc), AllFilesCombined(rs)),
            !.precision_at_k = PrecisionAtK(rs, ExpectedFlows(tc)),
            !.found_flows = Sorted(ExpectedFlows(tc) \cap ResultFlows(rs)),
            !.missing_flows = Sorted(ExpectedFlows(tc) \ ResultFlows(rs)),
            !.result_count = Len(rs)]

(***************************************************************************)
(* generate_benchmarks.py: compute_accuracy, estimate_naive_tokens         *)
(***************************************************************************)
compute_accuracy(tc, rs) ==
    LET expected_flows == {Lower(f) : f \in Range(tc.expected_flows)}
        expected_files == [i \in 1..Len(tc.expected_file_fragments) |->
                             Lower(tc.expected_file_fragments[i])]
        flow(r) == IF r.flow.t = "str" THEN Lower(r.flow.s) ELSE <<>>
        result_flows == {flow(rs[i]) : i \in 1..Len(rs)}
        all_source_files ==
            Concat([i \in 1..Len(rs) |->
                      LET items == IterItems(rs[i].source_files)
                      IN [j \in 1..Len(items) |-> Lower(items[j])]])
        found_flows == expected_flows \cap result_flows
        all_files_combined == Join(<<" ">>, all_source_files)
        found_file_frags ==
            SelectSeq(expected_files, LAMBDA f : IsSubstring(f, all_files_combined))
        k == Len(rs)
        relevant == Cardinality({i \in 1..k : flow(rs[i]) \in expected_flows})
    IN IF \E i \in 1..Len(rs) : FlowRaises(rs[i]) \/ IterRaises(rs[i].source_files)
       THEN Raised
       ELSE [Pending EXCEPT
               !.status = "returned",
               !.flow_hit_rate =
                   IF expected_flows # {}
                   THEN Round3(Cardinality(found_flows), Cardinality(expected_flows))
                   ELSE 1000,
               !.file_hit_rate =
                   IF Len(expected_files) > 0
                   THEN Round3(Len(found_file_frags), Len(expected_files))
                   ELSE 1000,
               !.precision_at_k = IF k > 0 THEN Round3(relevant, k) ELSE 0]

RECURSIVE LowZeros(_)
\* the number of zero bits at the low end of a natural number n > 0
LowZeros(n) == IF n % 2 = 1 THEN 0 ELSE 1 + LowZeros(n \div 2)

\* the same for limbs
BigLowZeros(a) ==
    LET At1(i) == 15 * (i - 1) + LowZeros(a[i])
    IN At1(CHOOSE i \in 1..Len(a) : a[i] # 0 /\ \A j \in 1..(i - 1) : a[j] = 0)

\* the key of a whole number: its sign and its limbs
IntKey(neg, limbs) ==
    [k |-> "int", s |-> <<>>, neg |-> neg /\ Len(limbs) > 0, m |-> limbs, e |-> 0]

\* the key of a double: a whole number has the key of the int it equals
\* (1.0 == 1, -0.0 == 0), any other double its odd mantissa and its exponent
FloatKey(x) ==
    LET Odd(t) == IF x.e + t = 0 THEN IntKey(x.neg, BigShiftRight(x.m, t).q)
                  ELSE [k |-> "float", s |-> <<>>, neg |-> x.neg,
                        m |-> BigShiftRight(x.m, t).q, e |-> x.e + t]
    IN IF x = Infinity(x.neg)
       THEN [k |-> "inf", s |-> <<>>, neg |-> x.neg, m |-> <<>>, e |-> 0]
       ELSE IF Len(x.m) = 0 THEN IntKey(FALSE, <<>>)
       ELSE IF x.e >= 0 THEN IntKey(x.neg, BigShiftLeft(x.m, x.e))
       ELSE Odd(Min(BigLowZeros(x.m), 0 - x.e))

\* what a set keeps of an item: two items are one element when they are
\* equal.  True and False are the numbers 1 and 0; an int is its exact
\* value and a float the value of its double, so that two number texts
\* that one double holds are one element, and so are an int and the float
\* equal to it; NaN is the one object json.loads gives for every NaN.
HashKey(v) ==
    LET Whole(n) == IntKey(n.k = "negative",
                           BigTimes10(BigOfDigits(n.s), SignedValue(n.p) - Len(n.s)))
    IN IF v.t = "bool"
       THEN IntKey(FALSE, IF v.s = <<"t", "r", "u", "e">> THEN <<1>> ELSE <<>>)
       ELSE IF v.t = "int" THEN Whole(NumValue(v.s))
       ELSE IF v.t = "float"
            THEN IF "N" \in Range(v.s)
                 THEN [k |-> "nan", s |-> <<>>, neg |-> FALSE, m |-> <<>>, e |-> 0]
                 ELSE IF "I" \in Range(v.s) THEN FloatKey(Infinity(v.s[1] = "-"))
                 ELSE FloatKey(FloatOfDecimal(v.s))
       ELSE [k |-> v.t, s |-> v.s, neg |-> FALSE, m |-> <<>>, e |-> 0]

\* all_files.add(sf) raises TypeError on a list and on a dict
Unhashable(v) == v.t \in {"list", "dict"}

estimate_naive_tokens(rs) ==
    LET items(i) == Iterated(rs[i].source_files)
        all_files == UNION {{HashKey(items(i)[j]) : j \in 1..Len(items(i))} :
                              i \in 1..Len(rs)}
    IN IF \E i \in 1..Len(rs) :
             \/ NotIterable(rs[i].source_files)
             \/ \E j \in 1..Len(items(i)) : Unhashable(items(i)[j])
       THEN Raised
       ELSE [Pending EXCEPT !.status = "returned", !.tokens = Cardinality(all_files) * 500]

(***************************************************************************)
(* generate_dataset.py: _file_fragments                                    *)
(***************************************************************************)
\* files, as the loop "for f in files" finds it: a string is decoded with
\* json.loads, and a JSONDecodeError makes it the empty list; the
\* ValueError and the RecursionError of json.loads are not caught
DecodedFiles(card) ==
    LET Loaded(files) == IF files.t = "error" THEN JList(<<>>) ELSE files
        Files(files) == Loaded(IF files.t = "str" THEN JsonLoads(files.s) ELSE files)
    IN Files(IF card.source_files.t = "missing" THEN JStr(<<>>) ELSE card.source_files)

\* the stems one card adds: lower-cased, longer than two characters
CardStems(card) ==
    LET Stems(items) == {s \in {Lower(PathStem(items[i])) : i \in 1..Len(items)} : Len(s) > 2}
    IN Stems(IterItems(DecodedFiles(card)))

file_fragments(cards) ==
    IF \E i \in 1..Len(cards) :
           JsonRaised(DecodedFiles(cards[i])) \/ IterRaises(DecodedFiles(cards[i]))
    THEN Raised
    ELSE LET First6(sorted) ==
                 [Pending EXCEPT !.status = "returned",
                                 !.value = SubSeq(sorted, 1, Min(6, Len(sorted)))]
             Seen(seen) == First6(Sorted(seen))
         IN Seen(UNION {CardStems(cards[i]) : i \in 1..Len(cards)})

(***************************************************************************)
(* generate_dataset.py: select_flows                                       *)
(*   flow  [flow, cardCount]  the name and f.get("cardCount", 0)           *)
(***************************************************************************)
\* "U+2194" in f["flow"]
IsCrossService(f) == Arrow \in Range(f.flow)

\* cross_service
CrossService(fl) == SelectSeq(fl, IsCrossService)

\* x put into a list sorted by descending cardCount, behind its equals
InsertByCardCount(sorted, x) ==
    LET k == Cardinality({i \in 1..Len(sorted) : sorted[i].cardCount >= x.cardCount})
    IN SubSeq(sorted, 1, k) \o <<x>> \o SubSeq(sorted, k + 1, Len(sorted))

RECURSIVE SortByCardCount(_, _)
\* list.sort(key=cardCount, reverse=True): descending and stable
SortByCardCount(fl, sorted) ==
    IF Len(fl) = 0 THEN sorted
    ELSE SortByCardCount(Tail(fl), InsertByCardCount(sorted, fl[1]))

\* regular, after regular.sort(...)
Regular(fl) == SortByCardCount(SelectSeq(fl, LAMBDA f : ~IsCrossService(f)), <<>>)

\* Mutant: the quota without its floor of one.
CsBudget_NoFloor(fl, n) == Min(Len(CrossService(fl)), n \div 4)

\* cs_budget
CsBudget(fl, n) == Min(Len(CrossService(fl)), Max(1, n \div 4))

\* remaining = sample - len(selected), after the cross-service draw
Remaining(fl, n) == n - CsBudget(fl, n)

\* top_half
TopHalf(fl) == SubSeq(Regular(fl), 1, Len(Regular(fl)) \div 2)

\* bottom_half
BottomHalf(fl) == SubSeq(Regular(fl), Len(Regular(fl)) \div 2 + 1, Len(Regular(fl)))

\* Mutant: one third of the remaining budget for the top half.
TopPick_OneThird(fl, n) == Min(Remaining(fl, n) \div 3, Len(TopHalf(fl)))

\* top_pick
TopPick(fl, n) == Min((Remaining(fl, n) * 2) \div 3, Len(TopHalf(fl)))

\* bottom_pick
BottomPick(fl, n) == Min(Remaining(fl, n) - TopPick(fl, n), Len(BottomHalf(fl)))

\* random.sample(pop, k): every list of k items at distinct positions of pop
RandomSample(pop, k) ==
    {[i \in 1..k |-> pop[q[i]]] :
        q \in {f \in [1..k -> 1..Len(pop)] : \A i, j \in 1..k : i # j => f[i] # f[j]}}

\* "random.sample(pop, k) if pop else []"
SampleIfAny(pop, k) == IF Len(pop) = 0 THEN {<<>>} ELSE RandomSample(pop, k)

\* random.sample raises ValueError for a negative or too large k
SampleRaises(pop, k) == Len(pop) > 0 /\ (k < 0 \/ k > Len(pop))

SelPending == [status |-> "pending", value |-> <<>>]

\* select_flows(flows, sample): the set of results the random draws allow
select_flows(fl, n) ==
    IF Len(fl) <= n THEN {[status |-> "returned", value |-> fl]}
    ELSE IF \/ SampleRaises(CrossService(fl), CsBudget(fl, n))
            \/ SampleRaises(TopHalf(fl), TopPick(fl, n))
            \/ SampleRaises(BottomHalf(fl), BottomPick(fl, n))
         THEN {[status |-> "raised", value |-> <<>>]}
    ELSE {[status |-> "returned",
           value |-> SubSeq(c \o t \o b, 1, Min(n, Len(c \o t \o b)))] :
             c \in SampleIfAny(CrossService(fl), CsBudget(fl, n)),
             t \in SampleIfAny(TopHalf(fl), TopPick(fl, n)),
             b \in SampleIfAny(BottomHalf(fl), BottomPick(fl, n))}

(***************************************************************************)
(* generate_dataset.py: generate_test_case                                 *)
(*   test case [id, expected_flows, expected_file_fragments, template]     *)
(* The query and the ground truth are a template filled in; the model      *)
(* keeps which template is used: "cross" or the index of the query         *)
(* template.                                                               *)
(***************************************************************************)
RECURSIVE Split(_, _, _, _)
\* s.split(sep) for a one-character sep
Split(s, sep, parts, cur) ==
    IF Len(s) = 0 THEN Append(parts, cur)
    ELSE IF s[1] = sep THEN Split(Tail(s), sep, Append(parts, cur), <<>>)
    ELSE Split(Tail(s), sep, parts, Append(cur, s[1]))

RECURSIVE StripChar(_, _)
\* s.strip(c) for one character c
StripChar(s, c) ==
    IF Len(s) > 0 /\ s[1] = c THEN StripChar(Tail(s), c)
    ELSE IF Len(s) > 0 /\ s[Len(s)] = c THEN StripChar(SubSeq(s, 1, Len(s) - 1), c)
    ELSE s

\* [a-z0-9]
IsSlugChar(c) == c \in Range(LowerCase) \/ c \in Range(Digits)

RECURSIVE SubNonSlug(_, _, _)
\* re.sub(r"[^a-z0-9]+", "-", s): every maximal run of other characters
\* becomes one "-"
SubNonSlug(s, out, inRun) ==
    IF Len(s) = 0 THEN out
    ELSE IF IsSlugChar(s[1]) THEN SubNonSlug(Tail(s), Append(out, s[1]), FALSE)
    ELSE IF inRun THEN SubNonSlug(Tail(s), out, TRUE)
    ELSE SubNonSlug(Tail(s), Append(out, "-"), TRUE)

\* case_id
CaseId(flow_name) == StripChar(SubNonSlug(Lower(flow_name), <<>>, FALSE), "-")

\* Mutant: the parts of the split, stripped, the empty ones kept.
ServiceParts_KeepEmpty(flow_name) ==
    LET parts == Split(flow_name, Arrow, <<>>, <<>>)
    IN [i \in 1..Len(parts) |-> StripWs(parts[i])]

\* the non-empty stripped parts of flow_name.split("U+2194")
ServiceParts(flow_name) ==
    LET parts == Split(flow_name, Arrow, <<>>, <<>>)
        stripped == [i \in 1..Len(parts) |-> StripWs(parts[i])]
    IN SelectSeq(stripped, LAMBDA q : Len(q) > 0)

\* len(QUERY_TEMPLATES)
QueryTemplates == 4

\* d.get(key) on a card or a flow of the service: the value of the key,
\* missing when the record does not carry it
Field(d, key) == IF key \in DOMAIN d THEN d[key] ELSE JMissing

\* ", ".join(repos), lines 128-129, with repos = _repos(flow_meta), lines
\* 84-88: a string is split into a list of strings, a value that is false
\* gives the default text, the keys of a dict are joined; a number, True and
\* a list with an item that is no string raise TypeError
RepoTextRaises(flow_meta) ==
    LET Joined(repos) ==
            /\ Truthy(repos)
            /\ \/ repos.t \in {"bool", "int", "float"}
               \/ repos.t = "list" /\ \E i \in 1..Len(repos.l) : repos.l[i].t # "str"
    IN Joined(Field(flow_meta, "repos"))

\* ", ".join(_card_types(cards)), line 130, with _card_types of lines 80-81:
\* the card types that are true are put in a set, sorted and joined.  A list
\* or a dict cannot enter the set, a number cannot be sorted among strings
\* nor joined: every card type that is true and no string raises TypeError
CardTypesRaise(cards) ==
    \E i \in 1..Len(cards) :
        LET Kept(card_type) == Truthy(card_type) /\ card_type.t # "str"
        IN Kept(Field(cards[i], "card_type"))

\* generate_test_case(flow_meta, cards, idx); raises when the join of the
\* repos, the join of the card types or _file_fragments does
generate_test_case(flow_meta, cards, idx) ==
    LET Case(flow_name, file_frags, is_cross_service, parts) ==
            IF \/ RepoTextRaises(flow_meta)
               \/ CardTypesRaise(cards)
               \/ file_frags.status = "raised"
            THEN [status |-> "raised", id |-> <<>>, expected_flows |-> <<>>,
                  expected_file_fragments |-> <<>>, template |-> "none"]
            ELSE [status |-> "returned",
                  id |-> CaseId(flow_name),
                  expected_flows |->
                      <<flow_name>>
                      \o (IF is_cross_service THEN ServiceParts(flow_name) ELSE <<>>),
                  expected_file_fragments |->
                      SubSeq(file_frags.value, 1, Min(5, Len(file_frags.value))),
                  template |->
                      IF is_cross_service /\ Len(parts) >= 2 THEN "cross"
                      ELSE Digits[(idx % QueryTemplates) + 1]]
    IN Case(flow_meta.flow, file_fragments(cards), Arrow \in Range(flow_meta.flow),
            Split(flow_meta.flow, Arrow, <<>>, <<>>))

(***************************************************************************)
(* The scoring specification: the pure functions applied to every test     *)
(* case and every result batch of the bounded input space.                 *)
(***************************************************************************)
\* expected flows a test case may name: "ab", "Ab", "cd"
ExpectedFlowPool == {<<"a", "b">>, <<"A", "b">>, <<"c", "d">>}

\* expected file fragments a test case may name: "Ub", "x"
FragmentPool == {<<"U", "b">>, <<"x">>}

\* the text ["p/ubc.r"]
JsonListText == <<"[", "\"", "p", "/", "u", "b", "c", ".", "r", "\"", "]">>

\* flow "aB", two source files in a list
CardListed ==
    [flow |-> JStr(<<"a", "B">>),
     source_files |-> JList(<< <<"p", "/", "u", "B", "c", ".", "r">>, <<"x", ".", "r">> >>)]

\* no flow, no source_files key
CardBare == [flow |-> JNone, source_files |-> JMissing]

\* flow "cd", source_files a JSON-encoded list
CardEncoded == [flow |-> JStr(<<"c", "d">>), source_files |-> JStr(JsonListText)]

\* flow "e", source_files a string that is not JSON
CardUnparsable ==
    [flow |-> JStr(<<"e">>), source_files |-> JStr(<<"p", "/", "u", "b", "c", ".", "r">>)]

\* flow "ab", source_files null
CardNull == [flow |-> JStr(<<"a", "b">>), source_files |-> JNone]

\* flow "cd", source_files a JSON-encoded number
CardNumber == [flow |-> JStr(<<"c", "d">>), source_files |-> JStr(<<"5">>)]

CardPool == {CardListed, CardBare, CardEncoded, CardUnparsable, CardNull, CardNumber}

SeqsUpTo(S, n) == UNION {[1..k -> S] : k \in 0..n}

\* The general family: every shape of source_files, short lists.
GeneralInputs ==
    [tc : [expected_flows : SeqsUpTo(ExpectedFlowPool, MaxExpected),
           expected_file_fragments : SeqsUpTo(FragmentPool, MaxFragments)],
     rs : SeqsUpTo(CardPool, MaxResults)]

\* The flow family: longer lists of expected flows ("e" added) and of cards,
\* no expected fragment; it reaches the rates that are no multiple of 0.5.
FlowInputs ==
    [tc : [expected_flows : SeqsUpTo(ExpectedFlowPool \cup {<<"e">>}, MaxFlowExpected),
           expected_file_fragments : {<<>>}],
     rs : SeqsUpTo({CardListed, CardBare, CardEncoded}, MaxFlowResults)]

\* a Python dict with no key
EmptyDict == [k \in {} |-> 0]

\* the value standing for None and for NaN among scores in thousandths
Absent == 0 - 1

\* run_ragas has not returned; rows are the rows of the judge's score table
RagasPending ==
    [status |-> "pending", empty |-> TRUE, rows |-> <<>>, per_case |-> EmptyDict,
     mean_context_precision |-> Absent, mean_context_recall |-> Absent,
     evaluated |-> 0, timed_out |-> 0]

\* no results file
NoResultsFile == [written |-> FALSE, test_cases |-> <<>>, aggregate_ragas |-> FALSE,
                  mean_context_precision |-> Absent, mean_context_recall |-> Absent]

EvalIdle ==
    /\ dataset = <<>>
    /\ case_id = ""
    /\ ragas = FALSE
    /\ verbose = FALSE
    /\ environ = {}
    /\ eval_cases = <<>>
    /\ all_results = EmptyDict
    /\ search_calls = <<>>
    /\ search_results = <<>>
    /\ det_by_id = EmptyDict
    /\ init_calls = <<>>
    /\ init_failed = {}
    /\ ragas_llm = "none"
    /\ ragas_out = RagasPending
    /\ results_file = NoResultsFile
    /\ epc = "idle"

\* a mean that is None: no value to average
NoMean == [present |-> FALSE, sum |-> 0, count |-> 0]

\* no deepeval results file
NoDeepFile ==
    [written |-> FALSE, run |-> 0, cases |-> <<>>,
     avg_contextual_precision |-> NoMean, avg_contextual_relevancy |-> NoMean,
     n_cases |-> 0, n_cases_with_precision |-> 0, n_cases_with_relevancy |-> 0]

\* no history file
NoHistory == [kind |-> "absent", records |-> <<>>]

DeepIdle ==
    /\ golden_exists = FALSE
    /\ golden = <<>>
    /\ deep_ids = <<>>
    /\ no_history = FALSE
    /\ deep_calls = <<>>
    /\ deep_idx = 0
    /\ deep_cases = <<>>
    /\ deep_results = <<>>
    /\ deep_file = NoDeepFile
    /\ history_file = NoHistory
    /\ dpc = "idle"
    /\ deep_run = 0

\* build_project_stats of no case: the empty dict
NoStats ==
    [empty |-> TRUE, raised |-> FALSE, queries_tested |-> 0, avg_tokens_with_srcmap |-> 0,
     avg_tokens_without |-> 0, token_reduction_pct |-> 0, avg_latency_ms |-> 0,
     p50_latency_ms |-> 0, p95_latency_ms |-> 0, p99_latency_ms |-> 0,
     cache_hit_rate |-> 0, flow_hit_rate |-> 0, file_hit_rate |-> 0,
     precision_at_5 |-> 0]

\* build_project_stats has raised: no statistics
StatsRaised == [NoStats EXCEPT !.raised = TRUE]

\* no benchmark file
NoBenchFile ==
    [exists |-> FALSE, projects |-> <<>>,
     aggregate |-> [total_projects |-> 0, total_queries |-> 0,
                    avg_token_reduction_pct |-> 0, avg_latency_ms |-> 0,
                    avg_flow_hit_rate |-> 0, avg_cache_hit_rate |-> 0]]

\* main has not read the benchmark file
NoExisting == [read |-> FALSE, projects |-> <<>>]

BenchIdle ==
    /\ bench_dataset = <<>>
    /\ bench_project = ""
    /\ bench_append = FALSE
    /\ bench_file = NoBenchFile
    /\ existing = NoExisting
    /\ bench_calls = <<>>
    /\ bench_cases = <<>>
    /\ latencies = <<>>
    /\ cache_hits = 0
    /\ bench_stats = NoStats
    /\ bpc = "idle"

RunnersIdle == EvalIdle /\ DeepIdle /\ BenchIdle /\ delays = <<>>

GenIdle ==
    /\ flows = <<>>
    /\ sample = 0
    /\ selected = SelPending
    /\ test_cases = <<>>
    /\ gpc = "idle"

ScoreIdle ==
    /\ test_case = [expected_flows |-> <<>>, expected_file_fragments |-> <<>>]
    /\ results = <<>>
    /\ det = Pending
    /\ acc = Pending
    /\ frags = Pending
    /\ naive = Pending
    /\ spc = "idle"

ScoreInit ==
    /\ \E inp \in GeneralInputs \cup FlowInputs :
          /\ test_case = inp.tc
          /\ results = inp.rs
    /\ det = Pending
    /\ acc = Pending
    /\ frags = Pending
    /\ naive = Pending
    /\ spc = "start"
    /\ GenIdle
    /\ RunnersIdle

ComputeDeterministic ==
    /\ spc = "start"
    /\ det' = compute_deterministic(test_case, results)
    /\ spc' = "done"
    /\ UNCHANGED <<test_case, results, acc, frags, naive, genVars, runnerVars>>

ComputeAccuracy ==
    /\ spc = "start"
    /\ acc' = compute_accuracy(test_case, results)
    /\ spc' = "done"
    /\ UNCHANGED <<test_case, results, det, frags, naive, genVars, runnerVars>>

FileFragments ==
    /\ spc = "start"
    /\ frags' = file_fragments(results)
    /\ spc' = "done"
    /\ UNCHANGED <<test_case, results, det, acc, naive, genVars, runnerVars>>

EstimateNaiveTokens ==
    /\ spc = "start"
    /\ naive' = estimate_naive_tokens(results)
    /\ spc' = "done"
    /\ UNCHANGED <<test_case, results, det, acc, frags, genVars, runnerVars>>

ScoreNext ==
    \/ ComputeDeterministic
    \/ ComputeAccuracy
    \/ FileFragments
    \/ EstimateNaiveTokens

SpecScore == ScoreInit /\ [][ScoreNext]_vars

(***************************************************************************)
(* Properties of the scorers (SpecScore).                                  *)
(***************************************************************************)
Rates(r) == {r.flow_hit_rate, r.file_hit_rate, r.precision_at_k}

\* the lower-cased expected-flow set and the lower-cased flow labels of the
\* returned cards (a card without a flow has the empty label), stated from
\* the inputs
LoweredExpected == {Lower(test_case.expected_flows[i]) : i \in 1..Len(test_case.expected_flows)}

CardLabel(i) == IF results[i].flow.t = "str" THEN Lower(results[i].flow.s) ELSE <<>>

FoundExpected == {e \in LoweredExpected : \E i \in 1..Len(results) : CardLabel(i) = e}

RelevantCards == {i \in 1..Len(results) : CardLabel(i) \in LoweredExpected}

\* C1: every rate compute_deterministic and compute_accuracy return lies in
\* [0,1] (0..1000 thousandths), for every test case and every batch.
C1_RatesInUnitInterval ==
    /\ det.status = "returned" => \A x \in Rates(det) : 0 <= x /\ x <= 1000
    /\ acc.status = "returned" => \A x \in Rates(acc) : 0 <= x /\ x <= 1000

\* C1 witness: a batch with more cards than expected flows scored strictly
\* inside the interval, the expected list holding a duplicate.
C1_Witness ==
    /\ det.status = "returned"
    /\ Len(results) > Cardinality(LoweredExpected)
    /\ Len(test_case.expected_flows) > Cardinality(LoweredExpected)
    /\ det.flow_hit_rate > 0 /\ det.flow_hit_rate < 1000
    /\ det.precision_at_k > 0 /\ det.precision_at_k < 1000

\* C2: an empty expected-flow list gives flow_hit_rate 1.0 and an empty
\* expected-fragment list gives file_hit_rate 1.0, whatever the batch: the
\* scorer, once called, has returned and the rate is 1000 thousandths.
C2_EmptyExpectationFullCredit ==
    \A r \in {det, acc} :
        r.status # "pending" =>
            /\ test_case.expected_flows = <<>> =>
                   r.status = "returned" /\ r.flow_hit_rate = 1000
            /\ test_case.expected_file_fragments = <<>> =>
                   r.status = "returned" /\ r.file_hit_rate = 1000

\* the same on the batches the scorer does not raise on
FullCreditWhereReturned ==
    \A r \in {det, acc} :
        r.status = "returned" =>
            /\ test_case.expected_flows = <<>> => r.flow_hit_rate = 1000
            /\ test_case.expected_file_fragments = <<>> => r.file_hit_rate = 1000

\* C3 as stated: for a non-empty expected-flow set, flow_hit_rate is exactly
\* (found expected flows) / (distinct expected flows), and found_flows and
\* missing_flows partition the lower-cased expected set.
C3_FlowHitRateExact ==
    (det.status = "returned" /\ LoweredExpected # {}) =>
        /\ det.flow_hit_rate * Cardinality(LoweredExpected) = 1000 * Cardinality(FoundExpected)
        /\ Range(det.found_flows) \cap Range(det.missing_flows) = {}
        /\ Range(det.found_flows) \cup Range(det.missing_flows) = LoweredExpected

\* C3 amended: flow_hit_rate is that quotient rounded to three decimals;
\* found_flows holds exactly the found expected flows and missing_flows the
\* others.
C3_FlowHitRateRounded ==
    (det.status = "returned" /\ LoweredExpected # {}) =>
        /\ det.flow_hit_rate = Round3(Cardinality(FoundExpected), Cardinality(LoweredExpected))
        /\ Range(det.found_flows) = FoundExpected
        /\ Range(det.missing_flows) = LoweredExpected \ FoundExpected
        /\ Range(det.found_flows) \cap Range(det.missing_flows) = {}
        /\ Range(det.found_flows) \cup Range(det.missing_flows) = LoweredExpected

\* C3 witness: one of three distinct expected flows found, through a card
\* whose label differs from it in letter case only.
C3_Witness ==
    /\ det.status = "returned"
    /\ Cardinality(LoweredExpected) = 3
    /\ det.flow_hit_rate = 333
    /\ det.found_flows = << <<"a", "b">> >>
    /\ \A i \in 1..Len(results) : results[i].flow.t = "str" => results[i].flow.s = <<"a", "B">>

\* C4 as stated: precision_at_k is exactly (relevant cards) / K with K the
\* number of cards returned, 0.0 when K = 0, and result_count is K.
C4_PrecisionExact ==
    det.status = "returned" =>
        /\ det.result_count = Len(results)
        /\ Len(results) = 0 => det.precision_at_k = 0
        /\ Len(results) > 0 =>
               det.precision_at_k * Len(results) = 1000 * Cardinality(RelevantCards)

\* C4 amended: precision_at_k is that quotient rounded to three decimals.
C4_PrecisionRounded ==
    det.status = "returned" =>
        /\ det.result_count = Len(results)
        /\ Len(results) = 0 => det.precision_at_k = 0
        /\ Len(results) > 0 =>
               det.precision_at_k = Round3(Cardinality(RelevantCards), Len(results))

\* C4 witness: three cards returned, fewer than the limit, one relevant.
C4_Witness ==
    /\ det.status = "returned"
    /\ det.result_count = 3
    /\ Cardinality(RelevantCards) = 1
    /\ det.precision_at_k = 333

\* the source-file paths of a card as the data model defines them: the list
\* itself, or the list a JSON-encoded string decodes to, else no path
CardPaths(card) ==
    IF card.source_files.t = "list" THEN IterItems(card.source_files)
    ELSE IF card.source_files.t = "str" /\ JsonLoads(card.source_files.s).t = "list"
         THEN IterItems(JsonLoads(card.source_files.s))
    ELSE <<>>

\* the expected fragments that occur, letter case ignored, in a path of a
\* returned card
FragmentsInPaths ==
    {i \in 1..Len(test_case.expected_file_fragments) :
        \E c \in 1..Len(results) : \E p \in Range(CardPaths(results[c])) :
            IsSubstring(Lower(test_case.expected_file_fragments[i]), Lower(p))}

\* C5: every expected fragment that is a substring of a returned card's
\* source-file path counts as found, so file_hit_rate is at least the
\* fraction of such fragments.
C5_PathFragmentsCountAsFound ==
    (det.status = "returned" /\ Len(test_case.expected_file_fragments) > 0) =>
        det.file_hit_rate >=
            Round3(Cardinality(FragmentsInPaths), Len(test_case.expected_file_fragments))

\* a batch with every source_files normalized to a list
NormalizedBatch ==
    [i \in 1..Len(results) |->
        [results[i] EXCEPT !.source_files = JList(CardPaths(results[i]))]]

\* C6: source_files is normalized before use: no function raises on it, and
\* each scores the batch as it scores the normalized batch.
C6_SourceFilesNormalized ==
    /\ det.status # "pending" => det = compute_deterministic(test_case, NormalizedBatch)
    /\ acc.status # "pending" => acc = compute_accuracy(test_case, NormalizedBatch)
    /\ frags.status # "pending" => frags = file_fragments(NormalizedBatch)
    /\ naive.status # "pending" => naive = estimate_naive_tokens(NormalizedBatch)

(***************************************************************************)
(* The sampling specification: select_flows applied to catalogues of       *)
(* c cross-service and r regular flows, for every sample size.             *)
(***************************************************************************)
\* the i-th cross-service flow "x<->i" and the i-th regular flow "ri"; the
\* regular card counts 1, 2, 0, 1, 2, 0, ... are unsorted and hold ties
CrossFlow(i) == [flow |-> <<"x", Arrow, Digits[i + 1]>>, cardCount |-> 1]

RegularFlow(i) == [flow |-> <<"r", Digits[i + 1]>>, cardCount |-> i % 3]

Catalogue(c, r, layout) ==
    LET cs == [i \in 1..c |-> CrossFlow(i)]
        rg == [i \in 1..r |-> RegularFlow(i)]
    IN IF layout = "cross_first" THEN cs \o rg ELSE rg \o cs

SelectInit ==
    /\ \E c \in 0..MaxCross, r \in 0..MaxRegular, layout \in {"cross_first", "cross_last"} :
          flows = Catalogue(c, r, layout)
    /\ sample \in 0..MaxSample
    /\ selected = SelPending
    /\ test_cases = <<>>
    /\ gpc = "start"
    /\ ScoreIdle
    /\ RunnersIdle

SelectFlows ==
    /\ gpc = "start"
    /\ selected' \in select_flows(flows, sample)
    /\ gpc' = "selected"
    /\ UNCHANGED <<flows, sample, test_cases, scoreVars, runnerVars>>

SelectNext == SelectFlows

SpecSelect == SelectInit /\ [][SelectNext]_vars

(***************************************************************************)
(* Properties of select_flows (SpecSelect).                                *)
(***************************************************************************)
NumCross(fl) == Cardinality({i \in 1..Len(fl) : Arrow \in Range(fl[i].flow)})

NumRegular(fl) == Len(fl) - NumCross(fl)

Sampled == gpc = "selected" /\ Len(flows) > sample

\* C7: for 0 <= target_size < number of flows, select_flows completes and
\* returns exactly target_size flows, all distinct and all of the catalogue.
C7_ExactlyTargetSize ==
    Sampled =>
        /\ selected.status = "returned"
        /\ Len(selected.value) = sample
        /\ \A i, j \in 1..Len(selected.value) : i # j => selected.value[i] # selected.value[j]
        /\ Range(selected.value) \subseteq Range(flows)

\* C8: sampling with target_size >= 1 from a catalogue with c >= 1
\* cross-service flows returns exactly min(c, max(1, target_size // 4))
\* cross-service flows.
C8_CrossServiceQuota ==
    (Sampled /\ sample >= 1 /\ NumCross(flows) >= 1) =>
        /\ selected.status = "returned"
        /\ NumCross(selected.value) = Min(NumCross(flows), Max(1, sample \div 4))
        /\ NumCross(selected.value) >= 1
        /\ NumCross(selected.value) <= Max(1, sample \div 4)

\* C8 witness: a quota of two (target_size 8) drawn from three cross-service
\* flows.
C8_Witness ==
    /\ Sampled
    /\ sample \div 4 = 2
    /\ NumCross(flows) = 3
    /\ selected.status = "returned"
    /\ NumCross(selected.value) = 2

HasCross == \E i \in 1..Len(selected.value) : Arrow \in Range(selected.value[i].flow)

HasTopHalf == \E i \in 1..Len(selected.value) : selected.value[i] \in Range(TopHalf(flows))

HasBottomHalf == \E i \in 1..Len(selected.value) : selected.value[i] \in Range(BottomHalf(flows))

\* C9 as stated: a selection returned by sampling from a catalogue with a
\* cross-service flow and two regular flows holds a cross-service flow, a
\* top-half regular flow and a bottom-half regular flow.
C9_MixedSelection ==
    (Sampled /\ selected.status = "returned"
       /\ NumCross(flows) >= 1 /\ NumRegular(flows) >= 2) =>
        HasCross /\ HasTopHalf /\ HasBottomHalf

\* C9 amended: the same, for a target_size of at least 3.
C9_MixedSelectionFromThree ==
    (Sampled /\ sample >= 3 /\ NumCross(flows) >= 1 /\ NumRegular(flows) >= 2) =>
        selected.status = "returned" /\ HasCross /\ HasTopHalf /\ HasBottomHalf

\* C9 witness: a sample of exactly three holding one flow of each kind.
C9_Witness ==
    /\ Sampled
    /\ sample = 3
    /\ NumCross(flows) >= 1 /\ NumRegular(flows) >= 2
    /\ selected.status = "returned"
    /\ Len(selected.value) = 3
    /\ HasCross /\ HasTopHalf /\ HasBottomHalf

(***************************************************************************)
(* The generator specification: main of generate_dataset.py on a           *)
(* catalogue of named flows.                                               *)
(***************************************************************************)
\* the flows the service may list: "Ab", "a_b", "a-b", "a<->b", "c<->d" (its
\* repos the text "r, s"), "c <->" (a blank and a no-break space before the
\* separator, nothing after it), "e" (its repos the list [1]) and "f"
NamedFlows ==
    { [flow |-> <<"A", "b">>, cardCount |-> 3],
      [flow |-> <<"a", "_", "b">>, cardCount |-> 1],
      [flow |-> <<"a", "-", "b">>, cardCount |-> 2],
      [flow |-> <<"a", Arrow, "b">>, cardCount |-> 2],
      [flow |-> <<"c", Arrow, "d">>, cardCount |-> 1,
       repos |-> JStr(<<"r", ",", " ", "s">>)],
      [flow |-> <<"c", " ", NoBreakSpace, Arrow>>, cardCount |-> 3],
      [flow |-> <<"e">>, cardCount |-> 1, repos |-> JArray(<<JInt(<<"1">>)>>)],
      [flow |-> <<"f">>, cardCount |-> 1] }

\* the catalogues: every list of at most MaxFlows flows with distinct names
NamedCatalogues ==
    {fl \in SeqsUpTo(NamedFlows, MaxFlows) :
        \A i, j \in 1..Len(fl) : i # j => fl[i].flow # fl[j].flow}

\* a card with a card type
Typed(card, card_type) ==
    [flow |-> card.flow, source_files |-> card.source_files, card_type |-> card_type]

\* fetch_cards(server, flow): the cards the service holds for a flow; the
\* cards of "a-b" carry the card types "model" and "", those of "f" a card
\* type that is a list
FetchCards(flow_name) ==
    IF Arrow \in Range(flow_name) THEN <<CardListed, CardEncoded>>
    ELSE IF flow_name = <<"A", "b">> THEN <<>>
    ELSE IF flow_name = <<"a", "-", "b">>
         THEN <<Typed(CardListed, JStr(<<"m", "o", "d", "e", "l">>)),
                Typed(CardBare, JStr(<<>>))>>
    ELSE IF flow_name = <<"f">>
         THEN <<CardListed, Typed(CardListed, JArray(<<JStr(<<"m">>)>>))>>
    ELSE <<CardListed>>

GenInit ==
    /\ flows \in NamedCatalogues
    /\ sample \in 0..MaxGenSample
    /\ selected = SelPending
    /\ test_cases = <<>>
    /\ gpc = "connecting"
    /\ ScoreIdle
    /\ RunnersIdle

\* main, lines 221-226: the health check and the list of flows, each fetched
\* through api_get (lines 37-48): a connection error and an HTTP error of
\* either call end the run with sys.exit(1), a timeout is not caught.  flows
\* is the list the service gives when both calls succeed.
MainFetch ==
    /\ gpc = "connecting"
    /\ \E health, listing \in {"ok", "connection_error", "http_error", "timeout"} :
         LET failed == IF health # "ok" THEN health ELSE listing
         IN gpc' = IF failed = "ok" THEN "fetched"
                   ELSE IF failed = "timeout" THEN "crashed" ELSE "exit"
    /\ UNCHANGED <<flows, sample, selected, test_cases, scoreVars, runnerVars>>

\* main, lines 226-229: no flow, the run ends with an error
NoFlowsExit ==
    /\ gpc = "fetched"
    /\ Len(flows) = 0
    /\ gpc' = "exit"
    /\ UNCHANGED <<flows, sample, selected, test_cases, scoreVars, runnerVars>>

\* main, line 231: selected = select_flows(flows, args.sample)
MainSelect ==
    /\ gpc = "fetched"
    /\ Len(flows) > 0
    /\ selected' \in select_flows(flows, sample)
    /\ gpc' = IF selected'.status = "raised" THEN "crashed" ELSE "generating"
    /\ UNCHANGED <<flows, sample, test_cases, scoreVars, runnerVars>>

\* main, lines 235-240: one turn of the loop over the selected flows.
\* fetch_cards goes through api_get (lines 37-48): a connection error and an
\* HTTP error end the run with sys.exit(1), a timeout is not caught
MainGenerate ==
    /\ gpc = "generating"
    /\ Len(test_cases) < Len(selected.value)
    /\ \E outcome \in {"ok", "connection_error", "http_error", "timeout"} :
         LET idx == Len(test_cases)
             flow_meta == selected.value[idx + 1]
             tc == generate_test_case(flow_meta, FetchCards(flow_meta.flow), idx)
         IN IF outcome # "ok"
            THEN /\ gpc' = IF outcome = "timeout" THEN "crashed" ELSE "exit"
                 /\ UNCHANGED test_cases
            ELSE IF tc.status = "raised"
                 THEN gpc' = "crashed" /\ UNCHANGED test_cases
                 ELSE test_cases' = Append(test_cases, tc) /\ UNCHANGED gpc
    /\ UNCHANGED <<flows, sample, selected, scoreVars, runnerVars>>

\* main, lines 242-252: the dataset is written
MainWrite ==
    /\ gpc = "generating"
    /\ Len(test_cases) = Len(selected.value)
    /\ gpc' = "written"
    /\ UNCHANGED <<flows, sample, selected, test_cases, scoreVars, runnerVars>>

GenNext ==
    \/ MainFetch
    \/ NoFlowsExit
    \/ MainSelect
    \/ MainGenerate
    \/ MainWrite

SpecGen == GenInit /\ [][GenNext]_vars

(***************************************************************************)
(* Properties of the generated dataset (SpecGen).                          *)
(***************************************************************************)
\* C10: no two test cases of one generated dataset have the same id, the
\* flow names of the catalogue being pairwise distinct.
C10_UniqueCaseIds ==
    \A i, j \in 1..Len(test_cases) : i # j => test_cases[i].id # test_cases[j].id

\* the flow name the i-th test case was generated from
SourceFlow(i) == selected.value[i].flow

\* the service names of a flow name: the pieces between the separator
\* markers, without their surrounding white space, the empty pieces left out
ServiceNames(flow_name) ==
    {StripWs(q) : q \in Range(Split(flow_name, Arrow, <<>>, <<>>))} \ {<<>>}

\* C11: the expected_flows of a generated test case starts with the flow's
\* own name; for a cross-service flow the rest is exactly its non-empty
\* service names, for a regular flow there is nothing else.
C11_ExpectedFlowsOfCase ==
    \A i \in 1..Len(test_cases) :
        LET ef == test_cases[i].expected_flows
        IN /\ Len(ef) >= 1 /\ ef[1] = SourceFlow(i)
           /\ Arrow \in Range(SourceFlow(i)) =>
                  Range(Tail(ef)) = ServiceNames(SourceFlow(i))
           /\ Arrow \notin Range(SourceFlow(i)) => ef = <<SourceFlow(i)>>

\* C11 witness: a dataset holding the case of a regular flow, the case of a
\* cross-service flow with two services and the case of the flow "c <->",
\* whose only service is "c".
C11_Witness ==
    /\ gpc = "written"
    /\ \E i \in 1..Len(test_cases) : test_cases[i].expected_flows = << <<"a", "-", "b">> >>
    /\ \E i \in 1..Len(test_cases) :
           test_cases[i].expected_flows = << <<"a", Arrow, "b">>, <<"a">>, <<"b">> >>
    /\ \E i \in 1..Len(test_cases) :
           test_cases[i].expected_flows = << <<"c", " ", NoBreakSpace, Arrow>>, <<"c">> >>

(***************************************************************************)
(* evaluate.py: main and run_ragas.  The run loads the dataset, searches   *)
(* once per test case, computes the deterministic metrics, optionally      *)
(* selects a judge and scores the cases with it, and writes the results.   *)
(* The judge's scores are doubles; what main keeps of them is rounded to   *)
(* three decimals and held in thousandths, Absent standing for None.       *)
(***************************************************************************)
\* d[k] = v
DictSet(d, k, v) == [x \in DOMAIN d \cup {k} |-> IF x = k THEN v ELSE d[x]]

\* d.get(k, default)
DictGet(d, k, default) == IF k \in DOMAIN d THEN d[k] ELSE default

\* a card as the search returns it to the runners: with a title and a content
Doc(card, title, content) ==
    [flow |-> card.flow, source_files |-> card.source_files,
     title |-> title, content |-> content]

\* a card that also has the keys card_type, score and source: type "m",
\* score 0.5, source "s"
Ranked(card) ==
    card @@ [card_type |-> JStr(<<"m">>), score |-> JFloat(<<"0", ".", "5">>),
             source |-> JStr(<<"s">>)]

\* r[key] raises KeyError: the card has no such key.  The title and the
\* content of a card are held as their text, the other keys as JSON values.
Lacks(r, key) ==
    IF key \in {"title", "content"} THEN key \notin DOMAIN r
    ELSE Field(r, key) = JMissing

\* r.get(key, ""), for the keys that hold text
TextOf(r, key) == IF key \in DOMAIN r THEN r[key] ELSE <<>>

\* r.get("source_files", [])[:n] raises TypeError: None, a number, True and
\* False have no slice, and a dict takes no slice for a key
Unsliceable(v) == v.t \in {"none", "bool", "int", "float", "dict"}

\* main, lines 403-405: what --verbose prints of a card raises.  The line
\* reads r['score'], r['flow'], r['title'] and r['card_type'] (KeyError) and
\* formats the score with .3f, which takes a number that a double holds
\* (ValueError or TypeError for any other value, OverflowError for an int
\* beyond the doubles); then it slices the source files
VerboseRaises(r) ==
    \/ Lacks(r, "score")
    \/ r.score.t \notin {"int", "float", "bool"}
    \/ r.score.t = "int" /\ FloatOfDecimal(r.score.s) = Infinity(r.score.s[1] = "-")
    \/ \E key \in {"flow", "title", "card_type"} : Lacks(r, key)
    \/ Unsliceable(Field(r, "source_files"))

\* main, lines 443-453: what the results file takes of a card raises, a
\* KeyError for a key the card lacks or the TypeError of the slice
ReportRaises(r) ==
    \/ \E key \in {"title", "flow", "card_type", "score", "source"} : Lacks(r, key)
    \/ Unsliceable(Field(r, "source_files"))

\* run_ragas, lines 219-221: the context of a card, title and content joined
Context(r) ==
    Join(<<"\n">>, SelectSeq(<<TextOf(r, "title"), TextOf(r, "content")>>,
                             LAMBDA q : Len(q) > 0))

\* run_ragas, lines 217-223: the contexts of a batch, the blank ones left out
Contexts(rs) ==
    SelectSeq([i \in 1..Len(rs) |-> Context(rs[i])],
              LAMBDA c : Len(StripWs(c)) > 0)

\* run_ragas, lines 210-231: used_ids, the cases that have a context
UsedIds(cases, by_id) ==
    LET ids == [i \in 1..Len(cases) |-> cases[i].id]
    IN SelectSeq(ids, LAMBDA id : Len(Contexts(DictGet(by_id, id, <<>>))) > 0)

\* run_ragas returning {}
RagasEmpty == [RagasPending EXCEPT !.status = "returned"]

\* float("nan"), the score of a row whose scoring failed or timed out: no
\* double has an empty mantissa at this exponent
NaN == [neg |-> FALSE, m |-> <<>>, e |-> 1024]

\* _safe(val), lines 268-273: round(v, 3), in thousandths, and None for NaN
safe(val) == IF val = NaN THEN Absent ELSE RoundFloat(val, 1000)

\* lines 291-295: round(sum(vals) / len(vals), 3), in thousandths, over the
\* scores of a column that are not NaN, as the judge gave them; None when
\* there is none
ColumnMean(column) ==
    LET vals == SelectSeq(column, LAMBDA v : v # NaN)
    IN IF Len(vals) = 0 THEN Absent
       ELSE RoundFloat(FloatDiv(FloatSum(vals), Len(vals)), 1000)

\* run_ragas, lines 267-300: per_case and aggregate from the judge's rows;
\* scores[i] is the pair (precision, recall) of the row of used_ids[i], each
\* a double or NaN
RagasScored(used_ids, scores) ==
    LET Last(id) == CHOOSE i \in 1..Len(used_ids) :
                        /\ used_ids[i] = id
                        /\ \A j \in 1..Len(used_ids) : used_ids[j] = id => j <= i
        cp == [i \in 1..Len(used_ids) |-> scores[i][1]]
        cr == [i \in 1..Len(used_ids) |-> scores[i][2]]
        cp_vals == SelectSeq(cp, LAMBDA v : v # NaN)
    IN [status |-> "returned", empty |-> FALSE,
        rows |-> [i \in 1..Len(used_ids) |->
                     [id |-> used_ids[i], context_precision |-> cp[i],
                      context_recall |-> cr[i]]],
        per_case |-> [id \in Range(used_ids) |->
                         [context_precision |-> safe(cp[Last(id)]),
                          context_recall |-> safe(cr[Last(id)])]],
        mean_context_precision |-> ColumnMean(cp),
        mean_context_recall |-> ColumnMean(cr),
        evaluated |-> Len(cp_vals),
        timed_out |-> Len(used_ids) - Len(cp_vals)]

\* the judge backends in the order run_ragas tries them
Backends == <<"deepseek", "openai", "gemini">>

\* the credential each backend needs
Credential(b) ==
    IF b = "deepseek" THEN "DEEPSEEK_API_KEY"
    ELSE IF b = "openai" THEN "OPENAI_API_KEY"
    ELSE "GOOGLE_API_KEY"

(***************************************************************************)
(* The evaluation specification: main of evaluate.py on every dataset of   *)
(* at most MaxEvalCases test cases, with every outcome of the searches,    *)
(* of the judge initializations and of the judge's scoring.                *)
(***************************************************************************)
MaxEvalCases == 2     \* test cases of a dataset, evaluation specification

\* test cases of pairwise distinct ids, each with the query that is searched
\* for and the ground truth the judge is given
DistinctCasePool ==
    { [id |-> "t1", query |-> <<"q", "1">>, ground_truth |-> <<"g">>,
       expected_flows |-> << <<"a", "b">> >>,
       expected_file_fragments |-> << <<"U", "b">> >>],
      [id |-> "t2", query |-> <<"q", "2">>, ground_truth |-> <<"g">>,
       expected_flows |-> <<>>, expected_file_fragments |-> <<>>] }

\* a test case of another flow and another query that has the id of the
\* first one, as generate_test_case gives two flows whose names slugify alike
TwinCase ==
    [id |-> "t1", query |-> <<"q", "3">>, ground_truth |-> <<"g">>,
     expected_flows |-> << <<"c", "d">> >>,
     expected_file_fragments |-> << <<"U", "b">> >>]

\* the test cases a dataset of evaluate.py may hold
EvalCasePool == DistinctCasePool \cup {TwinCase}

\* the batches a search may return: nothing, a card with a content, a card
\* with neither title nor content, a card whose source_files is null, a card
\* with a content that has no score, type or source
EvalBatches ==
    { <<>>,
      <<Ranked(Doc(CardListed, <<"T">>, <<"d", "o", "c">>))>>,
      <<Ranked(Doc(CardListed, <<>>, <<" ">>))>>,
      <<Ranked(Doc(CardNull, <<"T">>, <<>>))>>,
      <<Doc(CardListed, <<"T">>, <<"d", "o", "c">>)>> }

\* the scores the judge may give a row, precision and recall: NaN for both
\* (failure or timeout), 1.0 and 1.0, 0.0 and 0.5, 0.0026 and
\* 0.8333333333333334, NaN and 0.0
JudgeRows ==
    { <<NaN, NaN>>,
      <<FloatOf(1), FloatOf(1)>>,
      <<FloatOf(0), FloatOfDecimal(<<"0", ".", "5">>)>>,
      <<FloatOfDecimal(<<"0", ".", "0", "0", "2", "6">>),
        FloatOfDecimal(<<"0", ".", "8", "3", "3", "3", "3", "3", "3", "3", "3",
                         "3", "3", "3", "3", "3", "3", "3", "3", "4">>)>>,
      <<NaN, FloatOf(0)>> }

EvalInit ==
    /\ dataset \in SeqsUpTo(EvalCasePool, MaxEvalCases)
    /\ case_id \in {"", "t1", "zz"}
    /\ ragas \in BOOLEAN
    /\ verbose \in BOOLEAN
    /\ environ \in SUBSET {Credential(Backends[i]) : i \in 1..Len(Backends)}
    /\ eval_cases = <<>>
    /\ all_results = EmptyDict
    /\ search_calls = <<>>
    /\ search_results = <<>>
    /\ det_by_id = EmptyDict
    /\ init_calls = <<>>
    /\ init_failed = {}
    /\ ragas_llm = "none"
    /\ ragas_out = RagasPending
    /\ results_file = NoResultsFile
    /\ epc = "start"
    /\ ScoreIdle
    /\ GenIdle
    /\ DeepIdle
    /\ BenchIdle
    /\ delays = <<>>

\* main, lines 372-382: load the dataset, keep the case asked for with --id
LoadDataset ==
    /\ epc = "start"
    /\ LET kept == IF case_id # ""
                   THEN SelectSeq(dataset, LAMBDA tc : tc.id = case_id)
                   ELSE dataset
       IN /\ eval_cases' = kept
          /\ epc' = IF case_id # "" /\ Len(kept) = 0 THEN "exit" ELSE "searching"
    /\ UNCHANGED <<dataset, case_id, ragas, verbose, environ, all_results, search_calls, search_results,
                   det_by_id, init_calls, init_failed, ragas_llm, ragas_out,
                   results_file, scoreVars, genVars, deepVars, benchVars, delays>>

\* main, lines 397-407, and search, lines 51-64: one search call.  A
\* connection error and an HTTP error end the run with sys.exit(1); a read
\* timeout is not caught and ends it with the exception.  The results are
\* stored; with --verbose they are printed, and a card that cannot be printed
\* ends the run with the exception, before the delay.
Search ==
    /\ epc = "searching"
    /\ Len(search_calls) < Len(eval_cases)
    /\ LET tc == eval_cases[Len(search_calls) + 1]
       IN \E outcome \in {"ok", "connection_error", "http_error", "timeout"} :
            /\ search_calls' = Append(search_calls, outcome)
            /\ IF outcome = "ok"
               THEN \E batch \in EvalBatches :
                      LET raised == /\ verbose
                                    /\ \E i \in 1..Len(batch) : VerboseRaises(batch[i])
                      IN /\ all_results' = DictSet(all_results, tc.id, batch)
                         /\ search_results' = Append(search_results, batch)
                         /\ delays' = Append(delays, ~raised)
                         /\ epc' = IF raised THEN "crashed" ELSE epc
               ELSE /\ epc' = IF outcome = "timeout" THEN "crashed" ELSE "exit"
                    /\ delays' = Append(delays, FALSE)
                    /\ UNCHANGED <<all_results, search_results>>
    /\ UNCHANGED <<dataset, case_id, ragas, verbose, environ, eval_cases, det_by_id,
                   init_calls, init_failed, ragas_llm, ragas_out, results_file,
                   scoreVars, genVars, deepVars, benchVars>>

\* the place of the last test case that carries an id: a later assignment
\* to a dict key replaces the earlier one
LastWithId(cases, id) ==
    CHOOSE i \in 1..Len(cases) :
        /\ cases[i].id = id
        /\ \A j \in 1..Len(cases) : cases[j].id = id => j <= i

\* main, lines 410-414: the deterministic metrics of every test case
ComputeMetrics ==
    /\ epc = "searching"
    /\ Len(search_calls) = Len(eval_cases)
    /\ LET Det(tc) == compute_deterministic(tc, DictGet(all_results, tc.id, <<>>))
       IN IF \E i \in 1..Len(eval_cases) : Det(eval_cases[i]).status = "raised"
          THEN epc' = "crashed" /\ UNCHANGED det_by_id
          ELSE /\ det_by_id' = [id \in {eval_cases[i].id : i \in 1..Len(eval_cases)} |->
                                  Det(eval_cases[LastWithId(eval_cases, id)])]
               /\ epc' = IF ragas THEN "ragas_import" ELSE "report"
    /\ UNCHANGED <<dataset, case_id, ragas, verbose, environ, eval_cases, all_results,
                   search_calls, search_results, init_calls, init_failed, ragas_llm, ragas_out,
                   results_file, scoreVars, genVars, deepVars, benchVars, delays>>

\* run_ragas, lines 137-156: the Ragas packages are imported, or are missing
RagasImport ==
    /\ epc = "ragas_import"
    /\ \/ epc' = "deepseek" /\ UNCHANGED ragas_out
       \/ epc' = "report" /\ ragas_out' = RagasEmpty
    /\ UNCHANGED <<dataset, case_id, ragas, verbose, environ, eval_cases, all_results,
                   search_calls, search_results, det_by_id, init_calls, init_failed, ragas_llm,
                   results_file, scoreVars, genVars, deepVars, benchVars, delays>>

\* Mutant: a backend is initialized whenever its credential is set, a judge
\* being selected already or not.
TryBackend_Always(b, next) ==
    /\ epc = b
    /\ IF Credential(b) \in environ
       THEN /\ init_calls' = Append(init_calls, b)
            /\ \/ ragas_llm' = b /\ UNCHANGED init_failed
               \/ init_failed' = init_failed \cup {b} /\ UNCHANGED ragas_llm
       ELSE UNCHANGED <<init_calls, init_failed, ragas_llm>>
    /\ epc' = next
    /\ UNCHANGED <<dataset, case_id, ragas, verbose, environ, eval_cases, all_results,
                   search_calls, search_results, det_by_id, ragas_out, results_file,
                   scoreVars, genVars, deepVars, benchVars, delays>>

\* one "if <key>: try: ... except Exception" block of run_ragas: backend b is
\* initialized when no judge is selected yet and its credential is set; the
\* initialization gives the judge or raises
TryBackend(b, next) ==
    /\ epc = b
    /\ IF ragas_llm = "none" /\ Credential(b) \in environ
       THEN /\ init_calls' = Append(init_calls, b)
            /\ \/ ragas_llm' = b /\ UNCHANGED init_failed
               \/ init_failed' = init_failed \cup {b} /\ UNCHANGED ragas_llm
       ELSE UNCHANGED <<init_calls, init_failed, ragas_llm>>
    /\ epc' = next
    /\ UNCHANGED <<dataset, case_id, ragas, verbose, environ, eval_cases, all_results,
                   search_calls, search_results, det_by_id, ragas_out, results_file,
                   scoreVars, genVars, deepVars, benchVars, delays>>

\* run_ragas, lines 172-180
TryDeepSeek == TryBackend("deepseek", "openai")

\* run_ragas, lines 182-189
TryOpenAI == TryBackend("openai", "gemini")

\* run_ragas, lines 191-197
TryGemini == TryBackend("gemini", "judge")

\* Mutant: without a judge the run ends.
NoJudge_Abort ==
    /\ epc = "judge"
    /\ ragas_llm = "none"
    /\ epc' = "exit"
    /\ UNCHANGED <<dataset, case_id, ragas, verbose, environ, eval_cases, all_results,
                   search_calls, search_results, det_by_id, init_calls, init_failed, ragas_llm,
                   ragas_out, results_file, scoreVars, genVars, deepVars, benchVars, delays>>

\* run_ragas, lines 199-201: no judge, return {}
NoJudge ==
    /\ epc = "judge"
    /\ ragas_llm = "none"
    /\ ragas_out' = RagasEmpty
    /\ epc' = "report"
    /\ UNCHANGED <<dataset, case_id, ragas, verbose, environ, eval_cases, all_results,
                   search_calls, search_results, det_by_id, init_calls, init_failed, ragas_llm,
                   results_file, scoreVars, genVars, deepVars, benchVars, delays>>

\* run_ragas, lines 203-300: the rows are built and the judge scores them;
\* {} when there is no row or the evaluation raises, else a score or NaN
\* for each metric of each row
RagasEvaluate ==
    /\ epc = "judge"
    /\ ragas_llm # "none"
    /\ LET used_ids == UsedIds(eval_cases, all_results)
       IN IF Len(used_ids) = 0
          THEN ragas_out' = RagasEmpty
          ELSE \/ ragas_out' = RagasEmpty
               \/ \E scores \in [1..Len(used_ids) -> JudgeRows] :
                      ragas_out' = RagasScored(used_ids, scores)
    /\ epc' = "report"
    /\ UNCHANGED <<dataset, case_id, ragas, verbose, environ, eval_cases, all_results,
                   search_calls, search_results, det_by_id, init_calls, init_failed, ragas_llm,
                   results_file, scoreVars, genVars, deepVars, benchVars, delays>>

\* main, lines 425-466: the report and the results file.  The entries of
\* the file are built before it is opened: a card they cannot be taken from
\* ends the run with the exception and no file is written.
WriteResults ==
    /\ epc = "report"
    /\ LET scored == ragas_out.status = "returned" /\ ~ragas_out.empty
           Cards(tc) == DictGet(all_results, tc.id, <<>>)
           raised == \E i \in 1..Len(eval_cases) :
                         \E j \in 1..Len(Cards(eval_cases[i])) :
                             ReportRaises(Cards(eval_cases[i])[j])
           ragas_by_id == IF scored THEN ragas_out.per_case ELSE EmptyDict
           None == [present |-> FALSE, context_precision |-> Absent,
                    context_recall |-> Absent]
           Entry(tc) ==
               [id |-> tc.id,
                deterministic |-> det_by_id[tc.id],
                ragas |-> IF tc.id \in DOMAIN ragas_by_id
                          THEN [present |-> TRUE,
                                context_precision |-> ragas_by_id[tc.id].context_precision,
                                context_recall |-> ragas_by_id[tc.id].context_recall]
                          ELSE None]
       IN IF raised THEN epc' = "crashed" /\ UNCHANGED results_file
          ELSE /\ results_file' =
                      [written |-> TRUE,
                       test_cases |-> [i \in 1..Len(eval_cases) |-> Entry(eval_cases[i])],
                       aggregate_ragas |-> scored,
                       mean_context_precision |->
                           IF scored THEN ragas_out.mean_context_precision ELSE Absent,
                       mean_context_recall |->
                           IF scored THEN ragas_out.mean_context_recall ELSE Absent]
               /\ epc' = "written"
    /\ UNCHANGED <<dataset, case_id, ragas, verbose, environ, eval_cases, all_results,
                   search_calls, search_results, det_by_id, init_calls, init_failed, ragas_llm,
                   ragas_out, scoreVars, genVars, deepVars, benchVars, delays>>

EvalNext ==
    \/ LoadDataset
    \/ Search
    \/ ComputeMetrics
    \/ RagasImport
    \/ TryDeepSeek
    \/ TryOpenAI
    \/ TryGemini
    \/ NoJudge
    \/ RagasEvaluate
    \/ WriteResults

SpecEval == EvalInit /\ [][EvalNext]_vars

(***************************************************************************)
(* Properties of the evaluation run (SpecEval).                            *)
(***************************************************************************)
\* the place of a backend in the priority order
Priority(b) == CHOOSE i \in 1..Len(Backends) : Backends[i] = b

\* the backend was passed over: no credential, or its initialization raised
Unavailable(b) == Credential(b) \notin environ \/ b \in init_failed

\* C12: backends are initialized in the order DeepSeek, OpenAI, Gemini, only
\* with a credential, and none after the selected one; the selected judge is
\* the first backend with a credential whose initialization did not raise,
\* and no judge is selected only when every backend was passed over.
C12_JudgeSelectionOrder ==
    /\ \A i, j \in 1..Len(init_calls) :
           i < j => Priority(init_calls[i]) < Priority(init_calls[j])
    /\ \A i \in 1..Len(init_calls) : Credential(init_calls[i]) \in environ
    /\ init_failed \subseteq Range(init_calls)
    /\ ragas_llm # "none" =>
           /\ Len(init_calls) > 0
           /\ init_calls[Len(init_calls)] = ragas_llm
           /\ ragas_llm \notin init_failed
           /\ \A i \in 1..Len(Backends) :
                  Priority(Backends[i]) < Priority(ragas_llm) => Unavailable(Backends[i])
    /\ (epc = "judge" /\ ragas_llm = "none") =>
           \A i \in 1..Len(Backends) : Unavailable(Backends[i])

\* C12 witness: the three credentials set, DeepSeek fails to initialize,
\* OpenAI is selected and Gemini is never initialized.
C12_Witness ==
    /\ epc = "judge"
    /\ Cardinality(environ) = 3
    /\ init_failed = {"deepseek"}
    /\ ragas_llm = "openai"
    /\ init_calls = <<"deepseek", "openai">>

\* every card the searches stored for a test case has what the results file
\* takes of it
ReportReadable ==
    \A i \in 1..Len(eval_cases) :
        \A j \in 1..Len(DictGet(all_results, eval_cases[i].id, <<>>)) :
            ~ReportRaises(DictGet(all_results, eval_cases[i].id, <<>>)[j])

\* the ids of the evaluated test cases are pairwise distinct
DistinctIds ==
    \A i, j \in 1..Len(eval_cases) : eval_cases[i].id = eval_cases[j].id => i = j

\* the place of the last evaluated test case that has the id
LastOfId(id) ==
    CHOOSE i \in 1..Len(eval_cases) :
        /\ eval_cases[i].id = id
        /\ \A j \in (i + 1)..Len(eval_cases) : eval_cases[j].id # id

\* what C13 says of the results file of a run without a judge: it holds
\* the deterministic metrics of every test case, no semantic score for any
\* test case and no semantic aggregate.  The metrics of a test case are its
\* own on the results of its own search (own), or those main keeps under
\* its id: the metrics of the last test case of that id on the results of
\* that case's search.
NoJudgeReport(own) ==
    (epc = "written" /\ ragas /\ ragas_llm = "none") =>
           /\ results_file.written
           /\ ~results_file.aggregate_ragas
           /\ results_file.mean_context_precision = Absent
           /\ results_file.mean_context_recall = Absent
           /\ Len(results_file.test_cases) = Len(eval_cases)
           /\ \A i \in 1..Len(eval_cases) :
                  LET e == results_file.test_cases[i]
                  IN /\ e.id = eval_cases[i].id
                     /\ ~e.ragas.present
                     /\ e.deterministic.status = "returned"
                     /\ e.deterministic =
                            IF own
                            THEN compute_deterministic(eval_cases[i], search_results[i])
                            ELSE compute_deterministic(eval_cases[LastOfId(e.id)],
                                                       search_results[LastOfId(e.id)])

Mean(vals) ==
    IF Len(vals) = 0 THEN NoMean
    ELSE [present |-> TRUE, sum |-> SumSeq(vals), count |-> Len(vals)]

\* aggregate(results), lines 197-217
aggregate(rs) ==
    LET precision == [i \in 1..Len(rs) |-> rs[i].contextual_precision]
        relevancy == [i \in 1..Len(rs) |-> rs[i].contextual_relevancy]
        valid_precision == SelectSeq(precision, LAMBDA v : v # Absent)
        valid_relevancy == SelectSeq(relevancy, LAMBDA v : v # Absent)
    IN [avg_contextual_precision |-> Mean(valid_precision),
        avg_contextual_relevancy |-> Mean(valid_relevancy),
        n_cases |-> Len(rs),
        n_cases_with_precision |-> Len(valid_precision),
        n_cases_with_relevancy |-> Len(valid_relevancy)]

(***************************************************************************)
(* The deepeval specification: main of evaluate_deepeval.py on every       *)
(* golden dataset of at most MaxDeepCases entries.                         *)
(***************************************************************************)
MaxDeepCases == 2     \* entries of the golden dataset, deepeval specification
MaxRuns == 2          \* runs of evaluate_deepeval.py, one after the other

\* the entries a golden dataset may hold
GoldenPool == {[id |-> "g1"], [id |-> "g2"]}

\* the card lists a search may return
DeepBatches == { <<>>, <<Doc(CardListed, <<"T">>, <<"d", "o", "c">>)>> }

\* the scores a metric may give a case
MetricScores == {0, 1000}

\* the record an earlier run left in the history file
EarlierRecord == [run |-> 0, n_cases |-> 1]

\* the history file found at the start: none, a list of one earlier record,
\* text that holds the earlier record but is not JSON (a write cut short),
\* JSON that is not a list
HistoryFiles ==
    { NoHistory,
      [kind |-> "list", records |-> <<EarlierRecord>>],
      [kind |-> "unparsable", records |-> <<EarlierRecord>>],
      [kind |-> "object", records |-> <<>>] }

DeepInit ==
    /\ golden_exists \in BOOLEAN
    /\ golden \in SeqsUpTo(GoldenPool, MaxDeepCases)
    /\ golden_exists = FALSE => golden = <<>>
    /\ deep_ids \in {<<>>, <<"g1">>}
    /\ no_history \in BOOLEAN
    /\ deep_calls = <<>>
    /\ deep_idx = 0
    /\ deep_cases = <<>>
    /\ deep_results = <<>>
    /\ deep_file = NoDeepFile
    /\ history_file \in HistoryFiles
    /\ no_history => history_file = NoHistory
    /\ dpc = "start"
    /\ deep_run = 1
    /\ ScoreIdle
    /\ GenIdle
    /\ EvalIdle
    /\ BenchIdle
    /\ delays = <<>>

\* main, lines 266-272: the health check; a failure ends the run
DeepHealth ==
    /\ dpc = "start"
    /\ dpc' \in {"load", "exit"}
    /\ UNCHANGED <<golden_exists, golden, deep_ids, no_history, deep_calls,
                   deep_idx, deep_cases, deep_results, deep_file, history_file,
                   deep_run, scoreVars, genVars, evalVars, benchVars, delays>>

\* main, lines 274-279: the golden dataset is read, or is missing
DeepLoad ==
    /\ dpc = "load"
    /\ dpc' = IF golden_exists THEN "import" ELSE "exit"
    /\ UNCHANGED <<golden_exists, golden, deep_ids, no_history, deep_calls,
                   deep_idx, deep_cases, deep_results, deep_file, history_file,
                   deep_run, scoreVars, genVars, evalVars, benchVars, delays>>

\* build_test_cases, line 68: LLMTestCase is imported from deepeval before
\* the first entry is looked at; without the package the import raises and
\* nothing catches it
DeepImportTestCase ==
    /\ dpc = "import"
    /\ dpc' \in {"building", "crashed"}
    /\ UNCHANGED <<golden_exists, golden, deep_ids, no_history, deep_calls,
                   deep_idx, deep_cases, deep_results, deep_file, history_file,
                   deep_run, scoreVars, genVars, evalVars, benchVars, delays>>

\* build_test_cases, lines 71-73: an entry that --id leaves out is passed
DeepSkipEntry ==
    /\ dpc = "building"
    /\ deep_idx < Len(golden)
    /\ Len(deep_ids) > 0 /\ golden[deep_idx + 1].id \notin Range(deep_ids)
    /\ deep_idx' = deep_idx + 1
    /\ UNCHANGED <<golden_exists, golden, deep_ids, no_history, deep_calls,
                   deep_cases, deep_results, deep_file, history_file, dpc,
                   deep_run, scoreVars, genVars, evalVars, benchVars, delays>>

\* build_test_cases, lines 75-102, and search_codeprism, lines 43-56: one
\* search; any failure of the call gives no card, and an entry without
\* cards is left out
DeepSearch ==
    /\ dpc = "building"
    /\ deep_idx < Len(golden)
    /\ ~(Len(deep_ids) > 0 /\ golden[deep_idx + 1].id \notin Range(deep_ids))
    /\ \E outcome \in {"ok", "connection_error", "timeout"} :
         \E batch \in DeepBatches :
            LET cards == IF outcome = "ok" THEN batch ELSE <<>>
            IN /\ deep_calls' = Append(deep_calls, outcome)
               /\ deep_cases' = IF Len(cards) = 0 THEN deep_cases
                                ELSE Append(deep_cases,
                                            [id |-> golden[deep_idx + 1].id,
                                             cards |-> cards])
               /\ delays' = Append(delays, Len(cards) > 0)
    /\ deep_idx' = deep_idx + 1
    /\ UNCHANGED <<golden_exists, golden, deep_ids, no_history, deep_results,
                   deep_file, history_file, dpc, deep_run,
                   scoreVars, genVars, evalVars, benchVars>>

\* main, lines 286-289: no case built, the run ends with an error
DeepBuilt ==
    /\ dpc = "building"
    /\ deep_idx = Len(golden)
    /\ dpc' = IF Len(deep_cases) = 0 THEN "exit" ELSE "metrics_import"
    /\ UNCHANGED <<golden_exists, golden, deep_ids, no_history, deep_calls,
                   deep_idx, deep_cases, deep_results, deep_file, history_file,
                   deep_run, scoreVars, genVars, evalVars, benchVars, delays>>

\* run_metrics, lines 113-120: the two metrics are imported from deepeval;
\* an ImportError ends the run with sys.exit(1) before any case is measured
DeepImportMetrics ==
    /\ dpc = "metrics_import"
    /\ dpc' \in {"metrics", "exit"}
    /\ UNCHANGED <<golden_exists, golden, deep_ids, no_history, deep_calls,
                   deep_idx, deep_cases, deep_results, deep_file, history_file,
                   deep_run, scoreVars, genVars, evalVars, benchVars, delays>>

\* run_metrics, lines 132-188: one case measured; each metric gives a score
\* or raises, and a metric that raises leaves its score None
DeepMeasure ==
    /\ dpc = "metrics"
    /\ Len(deep_results) < Len(deep_cases)
    /\ \E precision \in MetricScores \cup {Absent},
          relevancy \in MetricScores \cup {Absent} :
          deep_results' = Append(deep_results,
              [id |-> deep_cases[Len(deep_results) + 1].id,
               contextual_precision |-> precision,
               contextual_relevancy |-> relevancy])
    /\ UNCHANGED <<golden_exists, golden, deep_ids, no_history, deep_calls,
                   deep_idx, deep_cases, deep_file, history_file, dpc,
                   deep_run, scoreVars, genVars, evalVars, benchVars, delays>>

\* main, lines 291-302: the results file, which replaces the one an
\* earlier run left; run stands for its timestamp
DeepWrite ==
    /\ dpc = "metrics"
    /\ Len(deep_results) = Len(deep_cases)
    /\ LET agg == aggregate(deep_results)
       IN deep_file' =
              [written |-> TRUE, run |-> deep_run, cases |-> deep_results,
               avg_contextual_precision |-> agg.avg_contextual_precision,
               avg_contextual_relevancy |-> agg.avg_contextual_relevancy,
               n_cases |-> agg.n_cases,
               n_cases_with_precision |-> agg.n_cases_with_precision,
               n_cases_with_relevancy |-> agg.n_cases_with_relevancy]
    /\ dpc' = IF no_history THEN "done" ELSE "history"
    /\ UNCHANGED <<golden_exists, golden, deep_ids, no_history, deep_calls,
                   deep_idx, deep_cases, deep_results, history_file,
                   deep_run, scoreVars, genVars, evalVars, benchVars, delays>>

\* append_to_history, lines 220-236: the record of the run is appended to
\* the list read from the file; unparsable text counts as the empty list,
\* and JSON that is not a list has no append
DeepHistory ==
    /\ dpc = "history"
    /\ LET record == [run |-> deep_run, n_cases |-> deep_file.n_cases]
           history == IF history_file.kind = "list" THEN history_file.records
                      ELSE <<>>
       IN IF history_file.kind = "object"
          THEN dpc' = "crashed" /\ UNCHANGED history_file
          ELSE /\ history_file' =
                      [kind |-> "list", records |-> Append(history, record)]
               /\ dpc' = "done"
    /\ UNCHANGED <<golden_exists, golden, deep_ids, no_history, deep_calls,
                   deep_idx, deep_cases, deep_results, deep_file,
                   deep_run, scoreVars, genVars, evalVars, benchVars, delays>>

\* evaluate_deepeval.py is started again with its own arguments; the golden
\* dataset, the history file and the results file are the files the
\* earlier runs left: nothing removes the results file, which stays as it is
\* until a run reaches line 302
DeepRerun ==
    /\ dpc \in {"done", "exit", "crashed"}
    /\ deep_run < MaxRuns
    /\ deep_run' = deep_run + 1
    /\ deep_ids' \in {<<>>, <<"g1">>}
    /\ no_history' \in BOOLEAN
    /\ deep_calls' = <<>>
    /\ deep_idx' = 0
    /\ deep_cases' = <<>>
    /\ deep_results' = <<>>
    /\ delays' = <<>>
    /\ dpc' = "start"
    /\ UNCHANGED <<golden_exists, golden, deep_file, history_file,
                   scoreVars, genVars, evalVars, benchVars>>

DeepNext ==
    \/ DeepHealth
    \/ DeepLoad
    \/ DeepImportTestCase
    \/ DeepSkipEntry
    \/ DeepSearch
    \/ DeepBuilt
    \/ DeepImportMetrics
    \/ DeepMeasure
    \/ DeepWrite
    \/ DeepHistory
    \/ DeepRerun

SpecDeep == DeepInit /\ [][DeepNext]_vars

(***************************************************************************)
(* Properties of judge scoring (SpecEval and SpecDeep).                    *)
(***************************************************************************)
\* the places, in dataset order, of the test cases that have a context: the
\* k-th row of the judge's table scores the k-th of them
UsedPlaces ==
    SelectSeq([i \in 1..Len(eval_cases) |-> i],
              LAMBDA i : Len(Contexts(DictGet(all_results, eval_cases[i].id, <<>>))) > 0)

\* the results file is the one this run has written
DeepWritten == deep_file.written /\ deep_file.run = deep_run

\* the scores of a metric that are present among the reported ones
Reported(metric) ==
    SelectSeq([i \in 1..Len(deep_file.cases) |-> deep_file.cases[i][metric]],
              LAMBDA v : v # Absent)

\* C14: a scoring failure on one case ends no run (a run that ends after the
\* scoring ends on a card the results file cannot be taken from) and leaves
\* that score None; every score the judge gave is reported for its case,
\* rounded to three decimals; a mean is taken over the scores that are
\* present and is None when there is none.
C14_ScoringFailureIsolated ==
    /\ (ragas_out.status = "returned" \/ deep_results # <<>>) =>
           /\ epc # "exit"
           /\ epc = "crashed" => ~ReportReadable
           /\ dpc # "exit"
           /\ dpc = "crashed" => history_file.kind = "object" /\ DeepWritten
    /\ (epc = "written" /\ results_file.aggregate_ragas) =>
           /\ Len(UsedPlaces) = Len(ragas_out.rows)
           /\ \A k \in 1..Len(ragas_out.rows) :
                  LET e == results_file.test_cases[UsedPlaces[k]]
                  IN /\ e.ragas.present
                     /\ e.ragas.context_precision = safe(ragas_out.rows[k].context_precision)
                     /\ e.ragas.context_recall = safe(ragas_out.rows[k].context_recall)
    /\ DeepWritten =>
           /\ Len(deep_file.cases) = Len(deep_cases)
           /\ \A i \in 1..Len(deep_cases) :
                  /\ deep_file.cases[i].id = deep_cases[i].id
                  /\ deep_file.cases[i] = deep_results[i]
           /\ \A metric \in {"contextual_precision", "contextual_relevancy"} :
                  LET avg == IF metric = "contextual_precision"
                             THEN deep_file.avg_contextual_precision
                             ELSE deep_file.avg_contextual_relevancy
                  IN /\ avg.present = (Len(Reported(metric)) > 0)
                     /\ avg.count = Len(Reported(metric))
                     /\ avg.sum = SumSeq(Reported(metric))

(***************************************************************************)
(* generate_benchmarks.py: estimate_srcmap_tokens, build_project_stats     *)
(* Rates are thousandths, token_reduction_pct is in tenths of a percent.   *)
(***************************************************************************)
RECURSIVE SrcmapTotal(_)
\* estimate_srcmap_tokens, lines 67-70: len(content) // 4 added card by card
SrcmapTotal(rs) ==
    IF Len(rs) = 0 THEN 0
    ELSE (Len(TextOf(Head(rs), "content")) \div 4) + SrcmapTotal(Tail(rs))

\* estimate_srcmap_tokens, lines 65-71
estimate_srcmap_tokens(rs) == Max(SrcmapTotal(rs), 1)

RECURSIVE InsertSorted(_, _)
InsertSorted(sorted, x) ==
    IF Len(sorted) = 0 THEN <<x>>
    ELSE IF x <= Head(sorted) THEN <<x>> \o sorted
    ELSE <<Head(sorted)>> \o InsertSorted(Tail(sorted), x)

RECURSIVE SortInts(_)
\* sorted(latencies)
SortInts(values) ==
    IF Len(values) = 0 THEN <<>>
    ELSE InsertSorted(SortInts(Tail(values)), Head(values))

\* the percentile place that stops one short of the last element
PercentileIndex_OneShort(n, pct) == Max((pct * n) \div 100 - 1, 0)

\* build_project_stats, lines 158-160: n // 2, int(n * 0.95), int(n * 0.99);
\* the float products truncate to (pct * n) // 100 for every n up to 200000
PercentileIndex(n, pct) == (pct * n) \div 100

\* round((1 - avg_srcmap / avg_naive) * 100, 1), in tenths of a percent.  A
\* fraction over avg_naive that is not half way between two tenths lies
\* 1 / (2 * avg_naive) or more from the tie, and the three rounding errors of
\* the doubles (2^-53 each) stay far below that for token counts under 2^40:
\* there the result rounds as the fraction does.  At a tie the division, the
\* subtraction and the product of the doubles decide.
ReductionPct(avg_srcmap, avg_naive) ==
    IF HalfWay((avg_naive - avg_srcmap) * 1000, avg_naive)
    THEN RoundFloat(FloatMul(FloatAdd(FloatOf(1),
                                      FloatNeg(FloatDiv(FloatOf(avg_srcmap), avg_naive))),
                             100),
                    10)
    ELSE RoundDiv((avg_naive - avg_srcmap) * 1000, avg_naive)

\* the reduction computed whatever the naive mean is; a division by zero is
\* reported as Absent
TokenReduction_NoZeroCheck(avg_srcmap, avg_naive) ==
    IF avg_naive = 0 THEN Absent ELSE ReductionPct(avg_srcmap, avg_naive)

\* build_project_stats, line 150:
\* round((1 - avg_srcmap / avg_naive) * 100, 1) if avg_naive > 0 else 0
TokenReduction(avg_srcmap, avg_naive) ==
    IF avg_naive > 0 THEN ReductionPct(avg_srcmap, avg_naive) ELSE 0

\* build_project_stats, lines 142-165.  n is the number of cases; the mean of
\* the latencies is statistics.mean(latencies), over the latencies there
\* are, which raises on an empty list, and a percentile index that the list
\* of latencies does not have raises IndexError.
build_project_stats(cases, lats, hits) ==
    LET n == Len(cases)
        sorted_latencies == SortInts(lats)
        Each(F(_)) == [i \in 1..n |-> F(cases[i])]
        Total(F(_)) == SumSeq(Each(F))
        WithTool(c) == c.srcmap_tokens
        Without(c) == c.naive_tokens
        FlowRate(c) == c.flow_hit_rate
        FileRate(c) == c.file_hit_rate
        Precision(c) == c.precision_at_k
        avg_srcmap == RoundDiv(Total(WithTool), n)
        avg_naive == RoundDiv(Total(Without), n)
    IN IF n = 0 THEN NoStats
       ELSE IF Len(lats) <= PercentileIndex(n, 99) THEN StatsRaised
       ELSE [empty |-> FALSE,
             raised |-> FALSE,
             queries_tested |-> n,
             avg_tokens_with_srcmap |-> avg_srcmap,
             avg_tokens_without |-> avg_naive,
             token_reduction_pct |-> TokenReduction(avg_srcmap, avg_naive),
             avg_latency_ms |-> RoundDiv(SumSeq(lats), Len(lats)),
             p50_latency_ms |-> sorted_latencies[PercentileIndex(n, 50) + 1],
             p95_latency_ms |-> sorted_latencies[PercentileIndex(n, 95) + 1],
             p99_latency_ms |-> sorted_latencies[PercentileIndex(n, 99) + 1],
             cache_hit_rate |-> Round3(hits, n),
             flow_hit_rate |-> MeanRounded(Each(FlowRate), 1000),
             file_hit_rate |-> MeanRounded(Each(FileRate), 1000),
             precision_at_5 |-> MeanRounded(Each(Precision), 1000)]

\* main, line 202 without line 201: the new entry added, nothing taken out
MergeProjects_NoFilter(projects, project_entry) == Append(projects, project_entry)

\* main, lines 200-202: the entries of other names kept, the new entry last
MergeProjects(projects, project_entry) ==
    Append(SelectSeq(projects, LAMBDA p : p.name # project_entry.name),
           project_entry)

(***************************************************************************)
(* The benchmark runs: main of generate_benchmarks.py, run again and again, *)
(* each run with its own arguments and the dataset file it finds.          *)
(***************************************************************************)
\* the dataset files: no test case, one, two
BenchDatasets ==
    {<<>>} \cup {<<tc>> : tc \in DistinctCasePool}
           \cup {<<a, b>> : a \in {tc \in DistinctCasePool : tc.id = "t1"},
                            b \in {tc \in DistinctCasePool : tc.id = "t2"}}

BenchProjects == {"p", "q"}

\* what search_with_timing may return: two cards served from the cache,
\* nothing found, and the two failures, which it turns into an empty batch
BenchOutcomes ==
    { [outcome |-> "ok",
       results |-> <<Doc(CardListed, <<"T">>, <<"c", "o", "n", "t", "e", "x", "t">>),
                     Doc(CardBare, <<"T">>, <<"h", "e", "l", "l", "o">>)>>,
       latency_ms |-> 12, cache_hit |-> TRUE],
      [outcome |-> "ok", results |-> <<>>, latency_ms |-> 7, cache_hit |-> FALSE],
      [outcome |-> "connection_error", results |-> <<>>, latency_ms |-> 3,
       cache_hit |-> FALSE],
      [outcome |-> "timeout", results |-> <<>>, latency_ms |-> 30000,
       cache_hit |-> FALSE] }

BenchInit ==
    /\ bench_dataset \in BenchDatasets
    /\ bench_project \in BenchProjects
    /\ bench_append \in BOOLEAN
    /\ bench_file = NoBenchFile
    /\ existing = NoExisting
    /\ bench_calls = <<>>
    /\ bench_cases = <<>>
    /\ latencies = <<>>
    /\ cache_hits = 0
    /\ bench_stats = NoStats
    /\ bpc = "search"
    /\ ScoreIdle
    /\ GenIdle
    /\ EvalIdle
    /\ DeepIdle
    /\ delays = <<>>

\* run_benchmarks, lines 119-133: the case of a test case whose search
\* returned data, with the estimates and the rates computed from it
BenchCase(data, accuracy, naive_tokens) ==
    [srcmap_tokens |-> estimate_srcmap_tokens(data.results),
     naive_tokens |-> naive_tokens.tokens,
     latency_ms |-> data.latency_ms,
     cache_hit |-> data.cache_hit,
     flow_hit_rate |-> accuracy.flow_hit_rate,
     file_hit_rate |-> accuracy.file_hit_rate,
     precision_at_k |-> accuracy.precision_at_k,
     result_count |-> Len(data.results)]

\* run_benchmarks, lines 110-137, and search_with_timing, lines 33-50: one
\* test case.  A failed call is caught and gives an empty batch.
BenchSearch ==
    /\ bpc = "search"
    /\ Len(bench_calls) < Len(bench_dataset)
    /\ LET tc == bench_dataset[Len(bench_calls) + 1]
       IN \E data \in BenchOutcomes :
            LET accuracy == compute_accuracy(tc, data.results)
                naive_tokens == estimate_naive_tokens(data.results)
            IN /\ bench_calls' = Append(bench_calls, data)
               /\ IF accuracy.status = "raised" \/ naive_tokens.status = "raised"
                  THEN /\ bpc' = "crashed"
                       /\ delays' = Append(delays, FALSE)
                       /\ UNCHANGED <<bench_cases, latencies, cache_hits>>
                  ELSE /\ cache_hits' = IF data.cache_hit THEN cache_hits + 1
                                        ELSE cache_hits
                       /\ latencies' = Append(latencies, data.latency_ms)
                       /\ bench_cases' = Append(bench_cases,
                                                BenchCase(data, accuracy, naive_tokens))
                       /\ delays' = Append(delays, TRUE)
                       /\ UNCHANGED bpc
    /\ UNCHANGED <<bench_dataset, bench_project, bench_append, bench_file, existing,
                   bench_stats, scoreVars, genVars, evalVars, deepVars>>

\* main, lines 185-186: run_benchmarks has returned, build_project_stats
BuildProjectStats ==
    /\ bpc = "search"
    /\ Len(bench_calls) = Len(bench_dataset)
    /\ LET stats == build_project_stats(bench_cases, latencies, cache_hits)
       IN IF stats.raised
          THEN bpc' = "crashed" /\ UNCHANGED bench_stats
          ELSE bpc' = "stats" /\ bench_stats' = stats
    /\ UNCHANGED <<bench_dataset, bench_project, bench_append, bench_file, existing,
                   bench_calls, bench_cases, latencies, cache_hits,
                   scoreVars, genVars, evalVars, deepVars, delays>>

\* main, lines 206-227: the aggregate block of the file.  The averages are
\* taken over the projects whose stats are not empty; the token reduction is
\* in tenths of a percent, the rates in thousandths.
Aggregate(projects) ==
    LET with_stats == SelectSeq(projects, LAMBDA p : ~p.stats.empty)
        all_stats == [i \in 1..Len(with_stats) |-> with_stats[i].stats]
        Each(F(_)) == [i \in 1..Len(all_stats) |-> F(all_stats[i])]
        Total(F(_)) == SumSeq(Each(F))
        Queries(st) == st.queries_tested
        Reduction(st) == st.token_reduction_pct
        Latency(st) == st.avg_latency_ms
        FlowRate(st) == st.flow_hit_rate
        CacheRate(st) == st.cache_hit_rate
        Avg(F(_), unit) == IF Len(all_stats) > 0 THEN MeanRounded(Each(F), unit) ELSE 0
    IN [total_projects |-> Len(projects),
        total_queries |-> Total(Queries),
        avg_token_reduction_pct |-> Avg(Reduction, 10),
        avg_latency_ms |-> IF Len(all_stats) > 0
                           THEN RoundDiv(Total(Latency), Len(all_stats))
                           ELSE 0,
        avg_flow_hit_rate |-> Avg(FlowRate, 1000),
        avg_cache_hit_rate |-> Avg(CacheRate, 1000)]

\* main, lines 188-230: the entry of the project, merged into the projects of
\* the file in append mode, the aggregate of the projects, and the file written
BenchWrite ==
    /\ bpc = "stats"
    /\ LET project_entry == [name |-> bench_project, stats |-> bench_stats,
                             cases |-> bench_cases]
           projects == IF bench_append /\ bench_file.exists
                       THEN MergeProjects(bench_file.projects, project_entry)
                       ELSE <<project_entry>>
       IN /\ bench_file' = [exists |-> TRUE, projects |-> projects,
                            aggregate |-> Aggregate(projects)]
          /\ existing' = IF bench_append /\ bench_file.exists
                         THEN [read |-> TRUE, projects |-> bench_file.projects]
                         ELSE existing
    /\ bpc' = "done"
    /\ UNCHANGED <<bench_dataset, bench_project, bench_append, bench_calls,
                   bench_cases, latencies, cache_hits, bench_stats,
                   scoreVars, genVars, evalVars, deepVars, delays>>

\* main, lines 168-183: the program is started again, with new arguments and
\* the dataset file of the project to measure
BenchRerun ==
    /\ bpc = "done"
    /\ bench_dataset' \in BenchDatasets
    /\ bench_project' \in BenchProjects
    /\ bench_append' \in BOOLEAN
    /\ bench_calls' = <<>>
    /\ bench_cases' = <<>>
    /\ latencies' = <<>>
    /\ cache_hits' = 0
    /\ bench_stats' = NoStats
    /\ existing' = NoExisting
    /\ bpc' = "search"
    /\ delays' = <<>>
    /\ UNCHANGED <<bench_file, scoreVars, genVars, evalVars, deepVars>>

BenchNext ==
    \/ BenchSearch
    \/ BuildProjectStats
    \/ BenchWrite
    \/ BenchRerun

SpecBench == BenchInit /\ [][BenchNext]_vars

(***************************************************************************)
(* Properties of the three runners.                                        *)
(***************************************************************************)
\* the outcomes of a search call that the service being unreachable or the
\* call timing out gives
SearchFailures == {"connection_error", "timeout"}

\* C15: in every runner, a search call that fails because the service is
\* unreachable or the call times out aborts the run: it is the last search
\* call of the run, the run has ended with an error, and no metric or
\* statistic is computed or written.
C15_SearchFailureAborts ==
    /\ \A i \in 1..Len(search_calls) :
          search_calls[i] \in SearchFailures =>
              /\ i = Len(search_calls)
              /\ epc \in {"exit", "crashed"}
              /\ det_by_id = EmptyDict
              /\ ~results_file.written
    /\ \A i \in 1..Len(bench_calls) :
          bench_calls[i].outcome \in SearchFailures =>
              /\ i = Len(bench_calls)
              /\ bpc \in {"exit", "crashed"}
              /\ Len(bench_cases) < i
              /\ bench_stats = NoStats
    /\ \A i \in 1..Len(deep_calls) :
          deep_calls[i] \in SearchFailures =>
              /\ i = Len(deep_calls)
              /\ dpc \in {"exit", "crashed"}
              /\ deep_results = <<>>
              /\ ~DeepWritten

\* evaluate.py is given no test case to run: an empty dataset, or a case id
\* that no test case of the dataset carries
NoCaseToEvaluate ==
    \/ Len(dataset) = 0
    \/ case_id # "" /\ \A i \in 1..Len(dataset) : dataset[i].id # case_id

\* C16: missing input data is fatal and detected before any scoring.  With a
\* dataset of no test case (evaluate.py, generate_benchmarks.py), a case id
\* that matches no test case (evaluate.py) or an empty catalogue of flows
\* (generate_dataset.py), no search is issued, no metric or statistic is
\* written, and the run, once over, has ended with an error (for the
\* generator: sys.exit(1), or the exception of a request that timed out
\* before the catalogue was there).
C16_MissingDataFatal ==
    /\ (epc \notin {"idle", "start"} /\ NoCaseToEvaluate) =>
          /\ search_calls = <<>>
          /\ ~results_file.written
          /\ epc \in {"exit", "crashed", "written"} => epc = "exit"
    /\ (bpc # "idle" /\ Len(bench_dataset) = 0) =>
          /\ bench_calls = <<>>
          /\ ~bench_file.exists
          /\ bpc \in {"exit", "crashed", "done"} => bpc = "exit"
    /\ (gpc \notin {"idle", "connecting", "fetched"} /\ Len(flows) = 0) =>
          /\ test_cases = <<>>
          /\ gpc \in {"exit", "crashed"}

(***************************************************************************)
(* build_project_stats on the cases of one run_benchmarks: main of         *)
(* generate_benchmarks.py from the return of run_benchmarks on, the        *)
(* searches drawn from two families.  Every state is the state of a run:   *)
(* the cases, the latencies and the cache hits are what run_benchmarks     *)
(* computes from the dataset and from what the searches returned.          *)
(***************************************************************************)
MaxLatencies == 25    \* cases of the latency family
MaxStatCases == 3     \* cases of the token family

\* the test case of the two families: nothing expected
StatTestCase ==
    [id |-> "t2", query |-> <<"q", "2">>, ground_truth |-> <<"g">>,
     expected_flows |-> <<>>, expected_file_fragments |-> <<>>]

\* what a search returned in latency_ms: one card with a content of four
\* characters a token (none for no token) and with the first files of the
\* source files a, b
StatCall(tokens, files, latency_ms) ==
    [outcome |-> "ok",
     results |-> <<Doc([flow |-> JStr(<<"x">>),
                        source_files |-> JList(SubSeq(<< <<"a">>, <<"b">> >>, 1, files))],
                       <<"T">>, [i \in 1..(4 * tokens) |-> "x"])>>,
     latency_ms |-> latency_ms, cache_hit |-> FALSE]

\* The latency family: n searches whose latencies (a * i + b) % m come
\* unsorted and with repetitions
LatencyShapes ==
    { [a |-> 1, b |-> 0, m |-> 1000], [a |-> 7, b |-> 3, m |-> 10],
      [a |-> 37, b |-> 5, m |-> 101], [a |-> 0, b |-> 9, m |-> 10],
      [a |-> 999, b |-> 500, m |-> 1000] }

LatencyCalls(n, shape) ==
    [i \in 1..n |-> StatCall(2, 1, (shape.a * i + shape.b) % shape.m)]

\* The token family: up to MaxStatCases searches, the content of the card
\* from no token on (the with-tool estimate is at least 1), none to two
\* source files (the naive estimate is a multiple of 500), one latency
TokenCallPool ==
    {StatCall(w, f, 10) : w \in {0, 2, 150, 501}, f \in 0..2}

StatInputs ==
    {LatencyCalls(n, shape) : n \in 1..MaxLatencies, shape \in LatencyShapes}
        \cup (SeqsUpTo(TokenCallPool, MaxStatCases) \ {<<>>})

\* run_benchmarks, lines 104-139, has returned: every search gave a batch
\* that compute_accuracy and estimate_naive_tokens take
StatsInit ==
    /\ bench_calls \in StatInputs
    /\ bench_dataset = [i \in 1..Len(bench_calls) |-> StatTestCase]
    /\ bench_cases =
           [i \in 1..Len(bench_calls) |->
                BenchCase(bench_calls[i],
                          compute_accuracy(bench_dataset[i], bench_calls[i].results),
                          estimate_naive_tokens(bench_calls[i].results))]
    /\ latencies = [i \in 1..Len(bench_calls) |-> bench_calls[i].latency_ms]
    /\ cache_hits = 0
    /\ bench_project = "p"
    /\ bench_append = FALSE
    /\ bench_file = NoBenchFile
    /\ existing = NoExisting
    /\ bench_stats = NoStats
    /\ bpc = "search"
    /\ delays = [i \in 1..Len(bench_calls) |-> TRUE]
    /\ ScoreIdle
    /\ GenIdle
    /\ EvalIdle
    /\ DeepIdle

StatsNext == BuildProjectStats \/ BenchWrite

SpecStats == StatsInit /\ [][StatsNext]_vars

(***************************************************************************)
(* Properties of build_project_stats (SpecStats).                          *)
(***************************************************************************)
IsAscending(values) ==
    \A i \in 1..(Len(values) - 1) : values[i] <= values[i + 1]

\* the largest latency
MaxLatency == CHOOSE x \in Range(latencies) : \A y \in Range(latencies) : y <= x

\* floor(n * pct / 100)
Floor(n, pct) == (n * pct) \div 100

\* the element at 0-based index k of the latencies in ascending order: the
\* latency v with at most k latencies below it and more than k up to it
AtRank(k) ==
    CHOOSE v \in Range(latencies) :
        /\ Cardinality({i \in 1..Len(latencies) : latencies[i] < v}) <= k
        /\ Cardinality({i \in 1..Len(latencies) : latencies[i] <= v}) > k

\* C17: for a non-empty list of n latencies, p50, p95 and p99 are the
\* elements of the ascending-sorted latencies at the (0-based) indices
\* floor(n*0.5), floor(n*0.95) and floor(n*0.99); each index is below n, and
\* p50 <= p95 <= p99 <= the maximum latency.
C17_PercentilesByIndex ==
    (bpc = "stats" /\ Len(latencies) > 0) =>
        LET n == Len(latencies)
        IN /\ Floor(n, 50) < n /\ Floor(n, 95) < n /\ Floor(n, 99) < n
           /\ bench_stats.p50_latency_ms = AtRank(Floor(n, 50))
           /\ bench_stats.p95_latency_ms = AtRank(Floor(n, 95))
           /\ bench_stats.p99_latency_ms = AtRank(Floor(n, 99))
           /\ bench_stats.p50_latency_ms <= bench_stats.p95_latency_ms
           /\ bench_stats.p95_latency_ms <= bench_stats.p99_latency_ms
           /\ bench_stats.p99_latency_ms <= MaxLatency

\* statistics of 21 unsorted latencies or more: the three indices differ and
\* the three percentiles are three different latencies
C17_Witness ==
    /\ bpc = "stats"
    /\ Len(latencies) >= 21
    /\ ~IsAscending(latencies)
    /\ bench_stats.p50_latency_ms < bench_stats.p95_latency_ms
    /\ bench_stats.p95_latency_ms < bench_stats.p99_latency_ms

(***************************************************************************)
(* Properties of the benchmark runs (SpecBench).                           *)
(***************************************************************************)
\* the batch the search of case i returned
BatchOf(i) == bench_calls[i].results

\* the total content length of a batch
TotalContentLength(rs) == SumSeq([j \in 1..Len(rs) |-> Len(TextOf(rs[j], "content"))])

\* the distinct source-file paths of a batch
DistinctPaths(rs) == UNION {Range(CardPaths(rs[j])) : j \in 1..Len(rs)}

\* C18: the with-tool estimate of a batch is the total content length of its
\* cards divided by 4 (integer division of the total), at least 1; the naive
\* estimate is the number of distinct source-file paths of its cards times 500.
C18_TokenEstimates ==
    \A i \in 1..Len(bench_cases) :
        /\ bench_cases[i].srcmap_tokens = Max(TotalContentLength(BatchOf(i)) \div 4, 1)
        /\ bench_cases[i].naive_tokens = Cardinality(DistinctPaths(BatchOf(i))) * 500

(***************************************************************************)
(* Properties of the token reduction (SpecStats).                          *)
(***************************************************************************)
\* the sums of the per-case estimates
SumWithTool == SumSeq([i \in 1..Len(bench_cases) |-> bench_cases[i].srcmap_tokens])

SumNaive == SumSeq([i \in 1..Len(bench_cases) |-> bench_cases[i].naive_tokens])

\* C19 as stated, the value read to the one decimal the report carries:
\* token_reduction_pct is (1 - mean_with_tool / mean_naive) * 100 of the
\* means of the per-case estimates, and 0 when the naive mean is 0.
C19_ReductionOfMeans ==
    (bpc = "stats" /\ Len(bench_cases) > 0) =>
        /\ SumNaive = 0 => bench_stats.token_reduction_pct = 0
        /\ SumNaive > 0 =>
              \* a tenth nearest to (1 - SumWithTool / SumNaive) * 1000
              /\ 2 * SumNaive * bench_stats.token_reduction_pct
                     <= 2000 * (SumNaive - SumWithTool) + SumNaive
              /\ 2 * SumNaive * bench_stats.token_reduction_pct
                     >= 2000 * (SumNaive - SumWithTool) - SumNaive

\* C19, amended: token_reduction_pct is round((1 - A / B) * 100, 1) where A
\* and B are the reported averages, the means of the per-case estimates
\* rounded to integers (ties to even); it is 0 when B is 0, and no division
\* by zero happens (the value is never Absent).
C19_ReductionOfRoundedMeans ==
    (bpc = "stats" /\ Len(bench_cases) > 0) =>
        LET n == Len(bench_cases)
            A == RoundDiv(SumWithTool, n)
            B == RoundDiv(SumNaive, n)
        IN /\ bench_stats.avg_tokens_with_srcmap = A
           /\ bench_stats.avg_tokens_without = B
           /\ bench_stats.token_reduction_pct # Absent
           /\ B = 0 => bench_stats.token_reduction_pct = 0
           /\ B > 0 =>
                 \* the tenth nearest to (1 - A / B) * 1000
                 /\ 2 * B * bench_stats.token_reduction_pct <= 2000 * (B - A) + B
                 /\ 2 * B * bench_stats.token_reduction_pct >= 2000 * (B - A) - B

\* statistics of cases whose means are no integers, with a reduction that
\* the exact means would give differently; and statistics of cases that
\* all returned no source file
C19_Witness ==
    /\ bpc = "stats"
    /\ Len(bench_cases) = 2
    /\ SumWithTool % 2 = 1
    /\ SumNaive > 0
    /\ \/ 2 * SumNaive * bench_stats.token_reduction_pct
              > 2000 * (SumNaive - SumWithTool) + SumNaive
       \/ 2 * SumNaive * bench_stats.token_reduction_pct
              < 2000 * (SumNaive - SumWithTool) - SumNaive

\* statistics of cases that all returned no source file: the naive mean is 0
C19_WitnessZero ==
    /\ bpc = "stats"
    /\ Len(bench_cases) > 1
    /\ SumNaive = 0
    /\ bench_stats.token_reduction_pct = 0

(***************************************************************************)
(* Properties of the benchmark file (SpecBench).                           *)
(***************************************************************************)
\* the places of the entries of a list of projects that carry a name
Named(projects, name) == {i \in 1..Len(projects) : projects[i].name = name}

\* the entry of the run that has just written the file
RunEntry == [name |-> bench_project, stats |-> bench_stats, cases |-> bench_cases]

\* C20: starting from no benchmark file, the file never holds two entries of
\* one project name; a run in append mode that finds the file leaves exactly
\* one entry of its project, the entry of this run, and keeps every entry of
\* another name as it was, no more and no less.
C20_OneEntryPerProject ==
    /\ \A name \in BenchProjects :
          Cardinality(Named(bench_file.projects, name)) <= 1
    /\ (bpc = "done" /\ existing.read) =>
          /\ \A i \in Named(bench_file.projects, bench_project) :
                bench_file.projects[i] = RunEntry
          /\ Cardinality(Named(bench_file.projects, bench_project)) = 1
          /\ SelectSeq(bench_file.projects, LAMBDA p : p.name # bench_project)
                = SelectSeq(existing.projects, LAMBDA p : p.name # bench_project)

\* a run of project P in append mode has found a file with an entry of P and
\* an entry of another project, and has written the file: the entry of P is
\* the new one, which differs from the one found
C20_Witness ==
    /\ bpc = "done"
    /\ existing.read
    /\ Len(existing.projects) = 2
    /\ \E i \in Named(existing.projects, bench_project) :
          existing.projects[i] # RunEntry
    /\ Len(bench_file.projects) = 2
    /\ RunEntry \in Range(bench_file.projects)

(***************************************************************************)
(* Properties of the global aggregate (SpecBench).                         *)
(***************************************************************************)
\* the sum, over every project listed in the file, of a statistic of the
\* project
SumOverProjects(F(_)) ==
    SumSeq([i \in 1..Len(bench_file.projects) |-> F(bench_file.projects[i].stats)])

QueriesTested(st) == st.queries_tested

TokenReductionPct(st) == st.token_reduction_pct

AvgLatencyMs(st) == st.avg_latency_ms

FlowHitRateOf(st) == st.flow_hit_rate

CacheHitRateOf(st) == st.cache_hit_rate

\* the mean over the total_projects projects of the file, rounded as the
\* file carries it: an integer for the latency, the tenths or thousandths of
\* a float for the others
MeanOverProjects(F(_)) == RoundDiv(SumOverProjects(F), Len(bench_file.projects))

FloatMeanOverProjects(F(_), unit) ==
    MeanRounded([i \in 1..Len(bench_file.projects) |-> F(bench_file.projects[i].stats)], unit)

\* C21: each average of the global aggregate is the arithmetic mean, over
\* all the projects listed in the file (total_projects of them), of the
\* project's own statistic; total_queries is the sum of the projects'
\* queries_tested.
C21_AggregateOverAllProjects ==
    bench_file.exists =>
        /\ bench_file.aggregate.total_projects = Len(bench_file.projects)
        /\ bench_file.aggregate.total_queries = SumOverProjects(QueriesTested)
        /\ bench_file.aggregate.avg_token_reduction_pct
              = FloatMeanOverProjects(TokenReductionPct, 10)
        /\ bench_file.aggregate.avg_latency_ms = MeanOverProjects(AvgLatencyMs)
        /\ bench_file.aggregate.avg_flow_hit_rate = FloatMeanOverProjects(FlowHitRateOf, 1000)
        /\ bench_file.aggregate.avg_cache_hit_rate = FloatMeanOverProjects(CacheHitRateOf, 1000)

(***************************************************************************)
(* Properties of the two halves of select_flows (SpecSelect).              *)
(***************************************************************************)
\* the regular flows of the catalogue
RegularFlows == {flows[i] : i \in {k \in 1..Len(flows) : Arrow \notin Range(flows[k].flow)}}

\* the flows of the selection that belong to a list of flows
DrawnFrom(half) ==
    Cardinality({i \in 1..Len(selected.value) : selected.value[i] \in Range(half)})

\* C22: when select_flows samples, the regular flows are cut into a top half
\* of floor(n/2) flows and a bottom half of the rest, every top-half flow
\* with a card count >= that of every bottom-half flow; with r = target_size
\* minus the cross-service flows selected, the selection holds exactly
\* min(floor(2r/3), size of top half) top-half flows and exactly
\* min(r - that number, size of bottom half) bottom-half flows.
C22_HalvesDraw ==
    Sampled =>
        LET top == TopHalf(flows)
            bottom == BottomHalf(flows)
            r == sample - NumCross(selected.value)
        IN /\ Len(top) = Cardinality(RegularFlows) \div 2
           /\ Range(top) \cup Range(bottom) = RegularFlows
           /\ Len(top) + Len(bottom) = Cardinality(RegularFlows)
           /\ \A i \in 1..Len(top), j \in 1..Len(bottom) :
                 top[i].cardCount >= bottom[j].cardCount
           /\ selected.status = "returned"
           /\ DrawnFrom(top) = Min((2 * r) \div 3, Len(top))
           /\ DrawnFrom(bottom) = Min(r - DrawnFrom(top), Len(bottom))

(***************************************************************************)
(* Properties of the per-case metrics of evaluate.py (SpecEval).           *)
(***************************************************************************)
\* C23: in evaluate.py, for every dataset, two test cases with one id
\* included, the deterministic metrics recorded for a test case are computed
\* from the results the service returned for the query of that test case.
C23_MetricsFromOwnResults ==
    results_file.written =>
        \A i \in 1..Len(eval_cases) :
            results_file.test_cases[i].deterministic
                = compute_deterministic(eval_cases[i], search_results[i])

(***************************************************************************)
(* Properties of the search loops of the three runners (SpecEval,         *)
(* SpecBench, SpecDeep).                                                   *)
(***************************************************************************)
\* build_test_cases, lines 71-73: the entries among the first n of the golden
\* dataset that the --id filter lets through, each of which is searched
RECURSIVE Searched(_)
Searched(n) ==
    IF n = 0 THEN 0
    ELSE Searched(n - 1)
         + (IF Len(deep_ids) > 0 /\ golden[n].id \notin Range(deep_ids) THEN 0 ELSE 1)

\* the search calls of the run follow the dataset, one call per entry reached
CallsInDatasetOrder ==
    /\ Len(search_calls) <= Len(eval_cases)
    /\ Len(search_results) <= Len(search_calls)
    /\ \A i \in 1..Len(search_results) :
          eval_cases[i].id \in DOMAIN all_results
    /\ Len(bench_calls) <= Len(bench_dataset)
    /\ Len(bench_cases) <= Len(bench_calls)
    /\ \A i \in 1..Len(bench_cases) :
          bench_cases[i].result_count = Len(bench_calls[i].results)
    /\ Len(deep_calls) = Searched(deep_idx)
    /\ Len(delays) = Len(search_calls) + Len(bench_calls) + Len(deep_calls)

\* C24: in every runner the search calls of one run are issued one at a time
\* in dataset order, and a politeness delay elapses between any two
\* consecutive search calls, also when the earlier call returned no results
\* or failed.
C24_DelayBetweenCalls ==
    /\ CallsInDatasetOrder
    /\ \A i \in 1..(Len(delays) - 1) : delays[i]

(***************************************************************************)
(* Properties of the history file of evaluate_deepeval.py (SpecDeep).      *)
(***************************************************************************)
\* the records of the history file are those of distinct runs, in run order
RecordsInRunOrder ==
    \A i, j \in 1..Len(history_file.records) :
        i < j => history_file.records[i].run < history_file.records[j].run

\* a step of append_to_history that completes: the file holds what it held
\* before, record for record, followed by the one record of this run
HistoryStepAppends ==
    (dpc = "history" /\ dpc' = "done") =>
        /\ history_file'.kind = "list"
        /\ Len(history_file'.records) = Len(history_file.records) + 1
        /\ \A i \in 1..Len(history_file.records) :
              history_file'.records[i] = history_file.records[i]
        /\ history_file'.records[Len(history_file'.records)].run = deep_run

\* C25: the history file is append-only: after any sequence of completed
\* runs with history enabled it holds one record per run, in run order, and
\* every run leaves the records written by earlier runs present and
\* unchanged, whatever the content of the file found at the start of the run.
C25_HistoryAppendOnly ==
    /\ []RecordsInRunOrder
    /\ [][HistoryStepAppends]_vars

\* the same for runs that find no history file or one that parses as a list
C25_ParsableHistoryAppendOnly ==
    /\ []RecordsInRunOrder
    /\ [][history_file.kind \in {"absent", "list"} => HistoryStepAppends]_vars

====
